---- MODULE Spec2Model ----
(***************************************************************************)
(* Model of the bongocat overlay's runtime core: configuration loading and *)
(* validation (src/src/config.c), hot reload and its watcher thread, the   *)
(* PID-file singleton, signals and the process lifecycle                   *)
(* (src/src/core/main.c).                                                  *)
(***************************************************************************)
EXTENDS Integers, Sequences, FiniteSets, TLC

VARIABLES
    \* ---- configuration state (config.c statics, main.c globals) ----
    g_config,                 \* main.c:24   the live configuration
    config_keyboard_devices,  \* config.c:19 static char ** (a block id, or NULL)
    config_num_devices,       \* config.c:20 static int
    heap,                     \* the char* arrays handed out by malloc/realloc
    debug_enabled,            \* error.c:7
    conf_file,                \* the configuration file on disk (environment)
    phase,                    \* where main() is: "boot", "running", "failed"
    nreloads,                 \* reload callbacks run so far
    nfailures,                \* loads that had an allocation fail
    live_file,                \* ghost: the file content that produced g_config
    last,                     \* ghost: what the last load / reload did
    \* ---- the reload callback on the watcher thread, step by step ----
    rl_pc,                    \* "idle", "copy" (g_config = temp_config), "apply"
    rl_i,                     \* members of g_config already overwritten
    temp_config,              \* main.c:237 local of the callback
    old_config,               \* main.c:247 local of the callback
    \* ---- a thread that reads the live configuration through its pointer ----
    rd_i,                     \* members read so far in the current use
    rd_seen,                  \* the values it read
    published,                \* ghost: every complete snapshot that was live
    \* ---- validate_config applied to arbitrary field values ----
    vcfg, vin, vonce, vstage, vsets,
    \* ---- several invocations of the program and the PID file ----
    pc,                       \* where each invocation's main() is
    pid_fd,                   \* main.c:461 the locked descriptor (an inode, or 0)
    rd_fd,                    \* main.c:82  fd of process_get_running_pid
    running_pid,              \* main.c:126 the PID toggle found
    poll_i,                   \* main.c:133 the i of the grace loop
    handlers,                 \* signal_setup_handlers has installed signal_handler
    running,                  \* main.c:22  the flag signal_handler clears
    exit_code,                \* the status each invocation ended with
    cl_code,                  \* the argument of system_cleanup_and_exit
    acquired,                 \* ghost: result of process_create_pid_file
    pid_path,                 \* the inode PID_FILE names (0: no such file)
    content,                  \* the PID stored in each inode (0: empty)
    ex_lock,                  \* the invocation holding LOCK_EX on each inode
    sh_lock,                  \* the invocations holding LOCK_SH on each inode
    init_log,                 \* main.c:288-321 the init steps each invocation completed
    cl_log,                   \* main.c:323-357 the cleanup steps each invocation ran
    signalled,                \* ghost: signal_handler ran for SIGINT / SIGTERM
    toggle_log,               \* ghost: what --toggle found and did, in order
    \* ---- config_devices_changed applied to arbitrary device lists ----
    dc_old, dc_new, dc_changed,
    \* ---- the configuration watcher of each invocation (-w) ----
    watch_config,             \* main.c:40  args.watch_config
    w_pc,                     \* where each worker thread of g_config_watcher is
    w_last,                   \* the modification time the watcher saw last
    conf_mtime,               \* the modification time of the watched file
    w_calls,                  \* ghost: invocations of config_reload_callback so far
    cb_result,                \* ghost: how the last finished callback ended
    \* ---- signal_handler ----
    h_log                     \* ghost: the calls signal_handler has made

cfgvars == <<g_config, config_keyboard_devices, config_num_devices, heap,
             debug_enabled, conf_file, phase, nreloads, nfailures, live_file, last>>
racevars == <<rl_pc, rl_i, temp_config, old_config, rd_i, rd_seen, published>>
valvars == <<vcfg, vin, vonce, vstage, vsets>>
pidvars == <<pc, pid_fd, rd_fd, running_pid, poll_i, handlers, running, exit_code,
             cl_code, acquired, pid_path, content, ex_lock, sh_lock,
             init_log, cl_log, signalled, toggle_log>>
devvars == <<dc_old, dc_new, dc_changed>>
watchvars == <<watch_config, w_pc, w_last, conf_mtime, w_calls, cb_result>>
extvars == <<devvars, watchvars, h_log>>
vars == <<cfgvars, racevars, valvars, pidvars, extvars>>

\* ------------------------------------------------------------------------
\* Bounds of the model
\* ------------------------------------------------------------------------
MaxReloads == 2
MaxBlocks == 6
MaxOverride == 2
MaxAllocFailures == 1
MaxRacedReloads == 1
NProcs == 3
MaxLines == 2
MaxEdits == 2
MaxDevs == 2

\* ------------------------------------------------------------------------
\* Program constants
\* ------------------------------------------------------------------------
MIN_CAT_HEIGHT == 10
MAX_CAT_HEIGHT == 200
MIN_OVERLAY_HEIGHT == 20
MAX_OVERLAY_HEIGHT == 300
MIN_FPS == 1
MAX_FPS == 120
MIN_DURATION == 10
MAX_DURATION == 5000
MAX_INTERVAL == 3600
MAX_OPACITY == 255

POSITION_TOP == 0
POSITION_BOTTOM == 1
LAYER_TOP == 0

\* embedded_assets.h and core/bongocat.h are not part of the available source
BONGOCAT_ANIM_INDEX == 0
DM20_AGUMON_ANIM_INDEX == 1
TOTAL_ANIMATIONS == 2
BONGOCAT_NUM_FRAMES == 4
MAX_NUM_FRAMES == 15
DEFAULT_SCREEN_WIDTH == 1920
DEFAULT_BAR_HEIGHT == 40

BONGOCAT_SUCCESS == 0
BONGOCAT_ERROR_MEMORY == 1

NULL == 0

\* ------------------------------------------------------------------------
\* Text: a token is a sequence of characters
\* ------------------------------------------------------------------------
DevDir == <<"/","d","e","v","/","i","n","p","u","t","/","e","v","e","n","t">>
DEFAULT_DEVICE == DevDir \o <<"4">>
Event3 == DevDir \o <<"3">>
Event7 == DevDir \o <<"7">>

\* what an array slot holds before it is assigned, and what freed storage
\* may hold once the allocator has reused it
UNINIT == <<"?">>
JUNK == <<"#">>

Digits == <<"0","1","2","3","4","5","6","7","8","9">>
IsDigit(ch) == \E d \in 1..10 : Digits[d] = ch
DigitVal(ch) == (CHOOSE d \in 1..10 : Digits[d] = ch) - 1

\* the digits of s from position i on, accumulated onto acc
RECURSIVE AccDigits(_, _, _)
AccDigits(s, i, acc) ==
    IF i > Len(s) \/ ~IsDigit(s[i]) THEN acc
    ELSE AccDigits(s, i + 1, acc * 10 + DigitVal(s[i]))

\* (int)strtol(value, NULL, 10): an optional sign, then the leading digits;
\* 0 when there are none.  Every token of the model has at most nine digits,
\* so the long result fits an int and the cast keeps its value.
StrToL(s) ==
    LET neg == Len(s) > 0 /\ s[1] = "-"
        start == IF Len(s) > 0 /\ (s[1] = "-" \/ s[1] = "+") THEN 2 ELSE 1
        mag == AccDigits(s, start, 0)
    IN  IF neg THEN -mag ELSE mag

\* ------------------------------------------------------------------------
\* config_t and its defaults
\* ------------------------------------------------------------------------
\* the compound literal of load_config: the members it does not name
\* (layer, crop_sprite, padding_x, padding_y) are zero
DefaultConfig ==
    [ screen_width            |-> DEFAULT_SCREEN_WIDTH,
      bar_height              |-> DEFAULT_BAR_HEIGHT,
      keyboard_devices        |-> NULL,
      num_keyboard_devices    |-> 0,
      cat_x_offset            |-> 100,
      cat_y_offset            |-> 10,
      cat_height              |-> 40,
      overlay_height          |-> 50,
      idle_frame              |-> 0,
      keypress_duration       |-> 100,
      test_animation_duration |-> 200,
      test_animation_interval |-> 3,
      fps                     |-> 60,
      overlay_opacity         |-> 150,
      enable_debug            |-> 1,
      layer                   |-> LAYER_TOP,
      overlay_position        |-> POSITION_TOP,
      animation_index         |-> BONGOCAT_ANIM_INDEX,
      invert_color            |-> 0,
      crop_sprite             |-> 0,
      padding_x               |-> 0,
      padding_y               |-> 0 ]

\* static config_t g_config = {0}
ZeroConfig == [f \in DOMAIN DefaultConfig |-> 0]

\* ------------------------------------------------------------------------
\* validate_config
\* ------------------------------------------------------------------------
\* a clamp with its two bounds exchanged
ClampSwapped(x, lo, hi) ==
    IF x < lo \/ x > hi THEN (IF x < lo THEN hi ELSE lo) ELSE x

\* if (x < lo || x > hi) x = x < lo ? lo : hi;
Clamp(x, lo, hi) ==
    IF x < lo \/ x > hi THEN (IF x < lo THEN lo ELSE hi) ELSE x

ValidateRanges(c) ==
    [c EXCEPT
        !.cat_height = Clamp(@, MIN_CAT_HEIGHT, MAX_CAT_HEIGHT),
        !.overlay_height = Clamp(@, MIN_OVERLAY_HEIGHT, MAX_OVERLAY_HEIGHT),
        !.fps = Clamp(@, MIN_FPS, MAX_FPS),
        !.keypress_duration = Clamp(@, MIN_DURATION, MAX_DURATION),
        !.test_animation_duration = Clamp(@, MIN_DURATION, MAX_DURATION),
        !.test_animation_interval = Clamp(@, 0, MAX_INTERVAL),
        !.overlay_opacity = Clamp(@, 0, MAX_OPACITY)]

ValidateAnimationIndex(c) ==
    IF c.animation_index < 0 \/ c.animation_index >= TOTAL_ANIMATIONS
    THEN [c EXCEPT !.animation_index = 0]
    ELSE c

ValidateIdleFrame(c) ==
    IF c.animation_index = BONGOCAT_ANIM_INDEX
    THEN IF c.idle_frame < 0 \/ c.idle_frame >= BONGOCAT_NUM_FRAMES
         THEN [c EXCEPT !.idle_frame = 0] ELSE c
    ELSE IF c.idle_frame < 0 \/ c.idle_frame >= MAX_NUM_FRAMES
         THEN [c EXCEPT !.idle_frame = 0] ELSE c

ValidateFlags(c) ==
    [c EXCEPT
        !.enable_debug = IF @ # 0 THEN 1 ELSE 0,
        !.invert_color = IF @ # 0 THEN 1 ELSE 0,
        !.overlay_position =
            IF @ # POSITION_TOP /\ @ # POSITION_BOTTOM THEN POSITION_TOP ELSE @]

\* validate_config with the idle frame checked before the animation index
\* has been finalized
ValidateConfigIdleFirst(c) ==
    ValidateFlags(ValidateAnimationIndex(ValidateIdleFrame(ValidateRanges(c))))

\* validate_config: the checks in the order of the code.  The off-screen
\* check of cat_x_offset only logs.
ValidateConfig(c) ==
    ValidateFlags(ValidateIdleFrame(ValidateAnimationIndex(ValidateRanges(c))))

\* ------------------------------------------------------------------------
\* The configuration file: a sequence of lines, each as sscanf classifies it
\* ------------------------------------------------------------------------
\* a line matching " %255[^=] = %255s": the trimmed key and the value token
KV(k, v) == [shape |-> "kv", key |-> k, value |-> v]
\* a line starting with '#'
CommentLine == [shape |-> "comment", key |-> "", value |-> <<>>]
\* a non-empty line for which sscanf assigns fewer than two items
MalformedLine == [shape |-> "malformed", key |-> "", value |-> <<>>]

L_fps30 == KV("fps", <<"3","0">>)
L_fps500 == KV("fps", <<"5","0","0">>)
L_cat55 == KV("cat_height", <<"5","5">>)
L_dev3 == KV("keyboard_device", Event3)
L_dev7 == KV("keyboard_devices", Event7)
L_foo == KV("foo", <<"b","a","r">>)
L_agumon == KV("animation_name", <<"a","g","u","m","o","n">>)
L_idle4 == KV("idle_frame", <<"4">>)
L_bottom == KV("overlay_position", <<"b","o","t","t","o","m">>)
L_interval == KV("test_animation_interval", <<"-","5">>)
L_overlay80 == KV("overlay_height", <<"8","0">>)

File(ls) == [exists |-> TRUE, lines |-> ls]
MissingFile == [exists |-> FALSE, lines |-> <<>>]

Files ==
    { MissingFile,
      File(<<>>),
      File(<<CommentLine, L_fps30>>),
      File(<<L_fps500, L_interval>>),
      File(<<L_dev3>>),
      File(<<L_dev3, L_fps30>>),
      File(<<L_dev3, L_dev7>>),
      File(<<L_dev7, L_dev3>>),
      File(<<L_foo, L_cat55>>),
      File(<<MalformedLine, MalformedLine>>),
      File(<<L_agumon, L_idle4>>),
      File(<<L_bottom, MalformedLine, L_cat55>>) }

\* every file of at most MaxLines lines over these lines
LoadLines ==
    {CommentLine, MalformedLine, L_foo, L_cat55, L_fps500, L_dev3, L_overlay80,
     L_agumon}
LoadFiles ==
    {MissingFile} \cup
    {File(ls) : ls \in UNION {[1..n -> LoadLines] : n \in 0..MaxLines}}

IsDeviceKey(k) == k = "keyboard_device" \/ k = "keyboard_devices"

\* the values of the keyboard_device / keyboard_devices lines, in file order
DeviceLines(file) ==
    LET dl == SelectSeq(file.lines, LAMBDA ln : ln.shape = "kv" /\ IsDeviceKey(ln.key))
    IN  [i \in 1..Len(dl) |-> dl[i].value]

\* ------------------------------------------------------------------------
\* The allocator: the char* arrays of the device list
\* ------------------------------------------------------------------------
Blocks == 1..MaxBlocks
EmptyHeap == [b \in Blocks |-> [live |-> FALSE, data |-> <<>>]]

\* an address malloc may return: not in use, and not one a pointer of the
\* program still holds
FreshBlock(h, avoid) ==
    CHOOSE b \in Blocks :
        /\ ~h[b].live /\ b \notin avoid
        /\ \A c \in Blocks : (~h[c].live /\ c \notin avoid) => b <= c

Resize(d, n) == [i \in 1..n |-> IF i <= Len(d) THEN d[i] ELSE UNINIT]

\* the allocation outcomes of one load_config call: whether realloc moves
\* the array, whether freed storage gets overwritten, and which allocation
\* (counted within the call, 0: none) fails
MaxDeviceLines ==
    CHOOSE n \in 0..8 :
        /\ \A f \in Files : Len(DeviceLines(f)) <= n
        /\ \E f \in Files : Len(DeviceLines(f)) = n
MaxAllocs == 2 + 2 * MaxDeviceLines
Oracles ==
    {o \in [move : BOOLEAN, scribble : BOOLEAN, failAt : 0..MaxAllocs] :
        o.scribble => o.move}
\* the outcomes open to a load when n allocation failures have been seen
OraclesAfter(n) == {o \in Oracles : n >= MaxAllocFailures => o.failAt = 0}

\* realloc(blk, n * sizeof(char*)) that succeeds: <<new pointer, new heap>>
Realloc(h, blk, n, orc, avoid) ==
    IF blk = NULL \/ orc.move
    THEN LET nb == FreshBlock(h, avoid \cup {blk})
             old == IF blk = NULL THEN <<>> ELSE h[blk].data
             h1 == [h EXCEPT ![nb] = [live |-> TRUE, data |-> Resize(old, n)]]
         IN  IF blk = NULL THEN <<nb, h1>>
             ELSE <<nb, [h1 EXCEPT ![blk] =
                            [live |-> FALSE,
                             data |-> IF orc.scribble
                                      THEN [i \in 1..Len(old) |-> JUNK]
                                      ELSE old]]>>
    ELSE <<blk, [h EXCEPT ![blk].data = Resize(@, n)]>>

\* the model forgets storage no pointer refers to any more
NormalizeHeap(h, refs) ==
    [b \in Blocks |-> IF b \in refs THEN h[b] ELSE [live |-> FALSE, data |-> <<>>]]

\* the device paths a configuration refers to: the first
\* num_keyboard_devices entries of the array its pointer names
DeviceList(c, h) ==
    IF c.keyboard_devices = NULL THEN <<>>
    ELSE LET d == h[c.keyboard_devices].data
         IN  [i \in 1..c.num_keyboard_devices |-> IF i <= Len(d) THEN d[i] ELSE JUNK]

\* ------------------------------------------------------------------------
\* parse_config_file and load_config
\* ------------------------------------------------------------------------
\* The state a load works on: the configuration being filled (cfg), the two
\* statics of config.c (gdev, gnum), the heap, the pointers the rest of the
\* program holds (held), the result so far, the allocations made and the
\* warnings logged by the parser.
Failed(st, orc) == st.nalloc + 1 = orc.failAt

\* the pointers the program holds while a load runs
HeldPointers(st) == st.held \cup {st.gdev, st.cfg.keyboard_devices}

\* the keyboard_device branch: grow the static array by one slot, copy the
\* value into a new string, and point the configuration at the static array
AppendDevice(st, value, orc) ==
    IF Failed(st, orc)
    THEN \* realloc returned NULL, and the NULL was stored in the static pointer
         [st EXCEPT !.gdev = NULL, !.result = BONGOCAT_ERROR_MEMORY,
                    !.nalloc = @ + 1]
    ELSE LET r == Realloc(st.heap, st.gdev, st.gnum + 1, orc, HeldPointers(st))
             s1 == [st EXCEPT !.gdev = r[1], !.heap = r[2], !.nalloc = @ + 1]
         IN  IF Failed(s1, orc)
             THEN [s1 EXCEPT !.result = BONGOCAT_ERROR_MEMORY, !.nalloc = @ + 1]
             ELSE [s1 EXCEPT
                     !.heap[s1.gdev].data[s1.gnum + 1] = value,
                     !.gnum = @ + 1,
                     !.cfg.keyboard_devices = s1.gdev,
                     !.cfg.num_keyboard_devices = s1.gnum + 1,
                     !.nalloc = @ + 1]

IntKeys ==
    {"cat_x_offset", "cat_y_offset", "cat_height", "overlay_height", "idle_frame",
     "keypress_duration", "test_animation_duration", "test_animation_interval",
     "fps", "overlay_opacity", "enable_debug", "invert_color"}

Warn(st) == [st EXCEPT !.warnings = @ + 1]

\* one iteration of the fgets loop, were an unknown key or a malformed line
\* an error that ends the load
ParseLineStrict(st, ln, orc) ==
    IF ln.shape = "comment" THEN st
    ELSE IF ln.shape = "malformed"
         THEN Warn([st EXCEPT !.result = BONGOCAT_ERROR_MEMORY])
    ELSE IF ln.key \in IntKeys
         THEN [st EXCEPT !.cfg[ln.key] = StrToL(ln.value)]
    ELSE IF IsDeviceKey(ln.key) THEN AppendDevice(st, ln.value, orc)
    ELSE Warn([st EXCEPT !.result = BONGOCAT_ERROR_MEMORY])

\* one iteration of the fgets loop
ParseLine(st, ln, orc) ==
    IF ln.shape = "comment" THEN st
    ELSE IF ln.shape = "malformed" THEN Warn(st)
    ELSE IF ln.key \in IntKeys
         THEN [st EXCEPT !.cfg[ln.key] = StrToL(ln.value)]
    ELSE IF ln.key = "overlay_position"
         THEN IF ln.value = <<"t","o","p">>
              THEN [st EXCEPT !.cfg.overlay_position = POSITION_TOP]
              ELSE IF ln.value = <<"b","o","t","t","o","m">>
              THEN [st EXCEPT !.cfg.overlay_position = POSITION_BOTTOM]
              ELSE Warn([st EXCEPT !.cfg.overlay_position = POSITION_TOP])
    ELSE IF ln.key = "animation_name"
         THEN IF ln.value = <<"b","o","n","g","o","c","a","t">>
              THEN [st EXCEPT !.cfg.animation_index = BONGOCAT_ANIM_INDEX]
              ELSE IF ln.value \in { <<"a","g","u","m","o","n">>,
                                     <<"d","m","2","0",":","a","g","u","m","o","n">>,
                                     <<"d","m",":","a","g","u","m","o","n">> }
              THEN [st EXCEPT !.cfg.animation_index = DM20_AGUMON_ANIM_INDEX]
              ELSE Warn([st EXCEPT !.cfg.animation_index = BONGOCAT_ANIM_INDEX])
    ELSE IF IsDeviceKey(ln.key) THEN AppendDevice(st, ln.value, orc)
    ELSE Warn(st)

RECURSIVE ParseLines(_, _, _, _)
ParseLines(st, lines, i, orc) ==
    IF i > Len(lines) THEN st
    ELSE ParseLines(ParseLine(st, lines[i], orc), lines, i + 1, orc)

\* parse_config_file: a missing file is a success that changes nothing
ParseConfigFile(st, file, orc) ==
    IF ~file.exists THEN st ELSE ParseLines(st, file.lines, 1, orc)

\* "Set default keyboard device if none specified": runs before the file is
\* read, whenever the static count is 0
SetDefaultDevice(st, orc) ==
    IF st.gnum # 0 THEN st
    ELSE IF Failed(st, orc)
    THEN [st EXCEPT !.gdev = NULL, !.nalloc = @ + 1]
    ELSE LET r == Realloc(st.heap, NULL, 1, orc, HeldPointers(st))
             s1 == [st EXCEPT !.gdev = r[1], !.heap = r[2], !.nalloc = @ + 1]
         IN  IF Failed(s1, orc)
             THEN [s1 EXCEPT !.nalloc = @ + 1]
             ELSE [s1 EXCEPT
                     !.heap[s1.gdev].data[1] = DEFAULT_DEVICE,
                     !.gnum = 1,
                     !.cfg.keyboard_devices = s1.gdev,
                     !.cfg.num_keyboard_devices = 1,
                     !.nalloc = @ + 1]

\* load_config(config, path), started from the statics gdev / gnum and the
\* heap h, while the rest of the program holds the pointers in held: the
\* final load state; its cfg is what *config holds on return
LoadConfigFrom(gdev, gnum, h, held, file, orc) ==
    LET s0 == [cfg |-> DefaultConfig, gdev |-> gdev, gnum |-> gnum, heap |-> h,
               held |-> held,
               result |-> BONGOCAT_SUCCESS, nalloc |-> 0, warnings |-> 0]
        s1 == SetDefaultDevice(s0, orc)
        s2 == ParseConfigFile(s1, file, orc)
    IN  IF s2.result # BONGOCAT_SUCCESS THEN s2
        ELSE LET v == ValidateConfig(s2.cfg)
             IN  [s2 EXCEPT !.cfg = [v EXCEPT !.bar_height = v.overlay_height]]

LoadConfig(file, orc) ==
    LoadConfigFrom(config_keyboard_devices, config_num_devices, heap,
                   {g_config.keyboard_devices, old_config.keyboard_devices}, file, orc)

\* ------------------------------------------------------------------------
\* main.c: initial load and the reload callback
\* ------------------------------------------------------------------------
\* config_devices_changed(old_config, new_config), reading both arrays from h
ConfigDevicesChanged(old, new, h) ==
    IF old.num_keyboard_devices # new.num_keyboard_devices THEN TRUE
    ELSE LET od == DeviceList(old, h)
             nd == DeviceList(new, h)
         IN  \E i \in 1..new.num_keyboard_devices :
                \A j \in 1..old.num_keyboard_devices : nd[i] # od[j]

NoLast ==
    [op |-> "none", result |-> BONGOCAT_SUCCESS, file |-> MissingFile,
     prev_file |-> MissingFile, prev_ok |-> FALSE, pre |-> ZeroConfig, pre_devs |-> <<>>,
     updates |-> 0, restarts |-> 0, restart_devs |-> <<>>, restart_num |-> 0,
     input_result |-> BONGOCAT_SUCCESS, alloc_failed |-> FALSE, warnings |-> 0]

\* what a load that ran to its end says about its allocations
AllocFailed(st, orc) == orc.failAt # 0 /\ orc.failAt <= st.nalloc

CfgInit ==
    /\ g_config = ZeroConfig
    /\ config_keyboard_devices = NULL
    /\ config_num_devices = 0
    /\ heap = EmptyHeap
    /\ debug_enabled = 1
    /\ conf_file \in Files
    /\ phase = "boot"
    /\ nreloads = 0
    /\ nfailures = 0
    /\ live_file = MissingFile
    /\ last = NoLast

\* main(): result = load_config(&g_config, args.config_file); a failure
\* returns EXIT_FAILURE
MainLoadConfig ==
    /\ phase = "boot"
    /\ \E orc \in OraclesAfter(nfailures) : \E st \in {LoadConfig(conf_file, orc)} :
        LET ok == st.result = BONGOCAT_SUCCESS
        IN  /\ g_config' = st.cfg
            /\ nfailures' = IF AllocFailed(st, orc) THEN nfailures + 1 ELSE nfailures
            /\ config_keyboard_devices' = st.gdev
            /\ config_num_devices' = st.gnum
            /\ heap' = NormalizeHeap(st.heap, {st.gdev, st.cfg.keyboard_devices})
            /\ debug_enabled' = IF ok THEN st.cfg.enable_debug ELSE debug_enabled
            /\ phase' = IF ok THEN "running" ELSE "failed"
            /\ live_file' = conf_file
            /\ last' = [NoLast EXCEPT !.op = "load", !.result = st.result,
                                      !.file = conf_file,
                                      !.alloc_failed = AllocFailed(st, orc),
                                      !.warnings = st.warnings]
    /\ UNCHANGED <<conf_file, nreloads>>

\* the user edits (or replaces, or removes) the configuration file
EditFile ==
    /\ phase = "running"
    /\ nreloads < MaxReloads
    /\ conf_file' \in Files \ {conf_file}
    /\ UNCHANGED <<g_config, config_keyboard_devices, config_num_devices, heap,
                   debug_enabled, phase, nreloads, nfailures, live_file, last>>

\* config_reload_callback(config_path), the whole callback
ConfigReloadCallback ==
    /\ phase = "running"
    /\ nreloads < MaxReloads
    /\ \E orc \in OraclesAfter(nfailures) : \E st \in {LoadConfig(conf_file, orc)} :
        LET ok == st.result = BONGOCAT_SUCCESS
            \* const config_t old_config = g_config; g_config = temp_config;
            changed == ConfigDevicesChanged(g_config, st.cfg, st.heap)
            rec == [NoLast EXCEPT
                      !.op = "reload", !.result = st.result, !.file = conf_file,
                      !.prev_file = live_file,
                      !.prev_ok = (last.result = BONGOCAT_SUCCESS /\ ~last.alloc_failed),
                      !.pre = g_config, !.pre_devs = DeviceList(g_config, heap),
                      !.alloc_failed = AllocFailed(st, orc),
                      !.warnings = st.warnings]
        IN  /\ config_keyboard_devices' = st.gdev
            /\ config_num_devices' = st.gnum
            /\ nfailures' = IF AllocFailed(st, orc) THEN nfailures + 1 ELSE nfailures
            /\ IF ~ok
               THEN \* "Keeping current configuration"
                    /\ g_config' = g_config
                    /\ heap' = NormalizeHeap(st.heap, {st.gdev, g_config.keyboard_devices})
                    /\ UNCHANGED <<debug_enabled, live_file>>
                    /\ last' = rec
               ELSE /\ g_config' = st.cfg
                    /\ heap' = NormalizeHeap(st.heap, {st.gdev, st.cfg.keyboard_devices})
                    /\ debug_enabled' = st.cfg.enable_debug
                    /\ live_file' = conf_file
                    /\ IF changed
                       THEN \* input_restart_monitoring(.., g_config.keyboard_devices,
                            \*     g_config.num_keyboard_devices, ..); its failure is logged
                            \E input_result \in {BONGOCAT_SUCCESS, BONGOCAT_ERROR_MEMORY} :
                              last' = [rec EXCEPT
                                  !.updates = 1, !.restarts = 1,
                                  !.restart_devs = DeviceList(st.cfg, st.heap),
                                  !.restart_num = st.cfg.num_keyboard_devices,
                                  !.input_result = input_result]
                       ELSE last' = [rec EXCEPT !.updates = 1]
    /\ nreloads' = nreloads + 1
    /\ UNCHANGED <<conf_file, phase>>

\* ------------------------------------------------------------------------
\* The reload callback against a concurrent reader of g_config
\* ------------------------------------------------------------------------
\* the members of config_t in declaration order: the order in which the
\* structure assignment g_config = temp_config overwrites them
FieldOrder ==
    << "screen_width", "bar_height", "keyboard_devices", "num_keyboard_devices",
       "cat_x_offset", "cat_y_offset", "cat_height", "overlay_height", "idle_frame",
       "keypress_duration", "test_animation_duration", "test_animation_interval",
       "fps", "overlay_opacity", "enable_debug", "layer", "overlay_position",
       "animation_index", "invert_color", "crop_sprite", "padding_x", "padding_y" >>

\* the members one use of the configuration reads (the animator's frame
\* tick: timing members), through _current_config == &g_config
ReaderFields == <<"test_animation_interval", "fps", "overlay_opacity">>
NotRead == -1
NothingSeen == [f \in {ReaderFields[i] : i \in 1..Len(ReaderFields)} |-> NotRead]

RaceFiles ==
    { File(<<>>), File(<<CommentLine, L_fps30>>), File(<<L_fps500, L_interval>>),
      File(<<L_dev3, L_fps30>>) }

NoFailure == [move |-> FALSE, scribble |-> FALSE, failAt |-> 0]

RaceIdle ==
    /\ rl_pc = "idle" /\ rl_i = 0
    /\ temp_config = ZeroConfig /\ old_config = ZeroConfig
    /\ rd_i = 0 /\ rd_seen = NothingSeen
    /\ published = {}

\* the process is up: main() has loaded conf_file and started its threads
RaceInit ==
    /\ conf_file \in RaceFiles
    /\ \E st \in {LoadConfigFrom(NULL, 0, EmptyHeap, {}, conf_file, NoFailure)} :
        /\ g_config = st.cfg
        /\ config_keyboard_devices = st.gdev
        /\ config_num_devices = st.gnum
        /\ heap = st.heap
        /\ debug_enabled = st.cfg.enable_debug
        /\ published = {st.cfg}
    /\ phase = "running"
    /\ nreloads = 0
    /\ nfailures = 0
    /\ live_file = conf_file
    /\ last = [NoLast EXCEPT !.op = "load", !.file = conf_file]
    /\ rl_pc = "idle" /\ rl_i = 0
    /\ temp_config = ZeroConfig /\ old_config = ZeroConfig
    /\ rd_i = 0 /\ rd_seen = NothingSeen

RaceEditFile ==
    /\ rl_pc = "idle"
    /\ nreloads < MaxRacedReloads
    /\ conf_file' \in RaceFiles \ {conf_file}
    /\ UNCHANGED <<g_config, config_keyboard_devices, config_num_devices, heap,
                   debug_enabled, phase, nreloads, nfailures, live_file, last>>
    /\ UNCHANGED racevars

\* config_reload_callback up to "const config_t old_config = g_config;"
RlLoad ==
    /\ rl_pc = "idle"
    /\ nreloads < MaxRacedReloads
    /\ \E orc \in OraclesAfter(nfailures) : \E st \in {LoadConfig(conf_file, orc)} :
        LET ok == st.result = BONGOCAT_SUCCESS
        IN  /\ config_keyboard_devices' = st.gdev
            /\ config_num_devices' = st.gnum
            /\ nfailures' = IF AllocFailed(st, orc) THEN nfailures + 1 ELSE nfailures
            /\ heap' = NormalizeHeap(st.heap,
                         {st.gdev, g_config.keyboard_devices, st.cfg.keyboard_devices})
            /\ last' = [NoLast EXCEPT
                          !.op = "reload", !.result = st.result, !.file = conf_file,
                          !.prev_file = live_file,
                          !.pre = g_config, !.pre_devs = DeviceList(g_config, heap),
                          !.alloc_failed = AllocFailed(st, orc),
                          !.warnings = st.warnings]
            /\ IF ok
               THEN /\ temp_config' = st.cfg
                    /\ old_config' = g_config
                    /\ published' = published \cup {st.cfg}
                    /\ rl_pc' = "copy"
                    /\ debug_enabled' = st.cfg.enable_debug
                    /\ UNCHANGED nreloads
               ELSE /\ nreloads' = nreloads + 1
                    /\ UNCHANGED <<temp_config, old_config, published, rl_pc,
                                   debug_enabled>>
    /\ UNCHANGED <<g_config, conf_file, phase, live_file, rl_i, rd_i, rd_seen>>

\* g_config = temp_config: one member of the live structure is overwritten
RlCopy ==
    /\ rl_pc = "copy"
    /\ rl_i < Len(FieldOrder)
    /\ g_config' = [g_config EXCEPT ![FieldOrder[rl_i + 1]] = temp_config[FieldOrder[rl_i + 1]]]
    /\ rl_i' = rl_i + 1
    /\ rl_pc' = IF rl_i + 1 = Len(FieldOrder) THEN "apply" ELSE "copy"
    /\ UNCHANGED <<config_keyboard_devices, config_num_devices, heap, debug_enabled,
                   conf_file, phase, nreloads, nfailures, live_file, last>>
    /\ UNCHANGED <<temp_config, old_config, rd_i, rd_seen, published>>

\* the rest of the callback: wayland_update_config, config_devices_changed,
\* input_restart_monitoring
RlApply ==
    /\ rl_pc = "apply"
    /\ LET changed == ConfigDevicesChanged(old_config, g_config, heap)
       IN  IF changed
           THEN \E input_result \in {BONGOCAT_SUCCESS, BONGOCAT_ERROR_MEMORY} :
                  last' = [last EXCEPT
                      !.updates = 1, !.restarts = 1,
                      !.restart_devs = DeviceList(g_config, heap),
                      !.restart_num = g_config.num_keyboard_devices,
                      !.input_result = input_result]
           ELSE last' = [last EXCEPT !.updates = 1]
    /\ heap' = NormalizeHeap(heap, {config_keyboard_devices, g_config.keyboard_devices})
    /\ live_file' = conf_file
    /\ rl_pc' = "idle" /\ rl_i' = 0
    /\ temp_config' = ZeroConfig /\ old_config' = ZeroConfig
    /\ nreloads' = nreloads + 1
    /\ UNCHANGED <<g_config, config_keyboard_devices, config_num_devices,
                   debug_enabled, conf_file, phase, nfailures>>
    /\ UNCHANGED <<rd_i, rd_seen, published>>

\* the reader reads the next member it needs from the live structure
RdRead ==
    /\ rd_i < Len(ReaderFields)
    /\ rd_seen' = [rd_seen EXCEPT ![ReaderFields[rd_i + 1]] = g_config[ReaderFields[rd_i + 1]]]
    /\ rd_i' = rd_i + 1
    /\ UNCHANGED cfgvars
    /\ UNCHANGED <<rl_pc, rl_i, temp_config, old_config, published>>

\* the use is over (the frame is done); the next one starts afresh
RdDone ==
    /\ rd_i = Len(ReaderFields)
    /\ rd_i' = 0
    /\ rd_seen' = NothingSeen
    /\ UNCHANGED cfgvars
    /\ UNCHANGED <<rl_pc, rl_i, temp_config, old_config, published>>

\* ------------------------------------------------------------------------
\* validate_config on arbitrary field values
\* ------------------------------------------------------------------------
\* values around the two ends of a range, and the out-of-range examples
Around(lo, hi) == {lo - 1, lo, hi, hi + 1, -5, 500, 999}

Probes ==
    [ cat_height              |-> Around(MIN_CAT_HEIGHT, MAX_CAT_HEIGHT),
      overlay_height          |-> Around(MIN_OVERLAY_HEIGHT, MAX_OVERLAY_HEIGHT),
      fps                     |-> Around(MIN_FPS, MAX_FPS),
      keypress_duration       |-> Around(MIN_DURATION, MAX_DURATION),
      test_animation_duration |-> Around(MIN_DURATION, MAX_DURATION),
      test_animation_interval |-> Around(0, MAX_INTERVAL),
      overlay_opacity         |-> Around(0, MAX_OPACITY),
      animation_index         |-> {-1, BONGOCAT_ANIM_INDEX, DM20_AGUMON_ANIM_INDEX,
                                   TOTAL_ANIMATIONS},
      idle_frame              |-> {-1, BONGOCAT_NUM_FRAMES - 1, BONGOCAT_NUM_FRAMES,
                                   MAX_NUM_FRAMES - 1, MAX_NUM_FRAMES},
      enable_debug            |-> {-1, 0, 2},
      invert_color            |-> {1, 7},
      overlay_position        |-> {-1, POSITION_BOTTOM, 2},
      cat_x_offset            |-> {-2000, 2000} ]

ValIdle ==
    /\ vcfg = DefaultConfig /\ vin = DefaultConfig /\ vonce = DefaultConfig
    /\ vstage = 0 /\ vsets = 0

\* a field of the configuration is given a value, as the parser would
VSet ==
    /\ vstage = 0
    /\ vsets < MaxOverride
    /\ \E f \in DOMAIN Probes : \E v \in Probes[f] :
        /\ vcfg' = [vcfg EXCEPT ![f] = v]
        /\ vin' = vcfg'
    /\ vsets' = vsets + 1
    /\ UNCHANGED <<vonce, vstage>>

\* validate_config(&config)
VValidate ==
    /\ vstage = 0
    /\ vcfg' = ValidateConfig(vcfg)
    /\ vonce' = vcfg'
    /\ vstage' = 1
    /\ UNCHANGED <<vin, vsets>>

\* validate_config(&config) on the configuration it returned
VRevalidate ==
    /\ vstage = 1
    /\ vcfg' = ValidateConfig(vcfg)
    /\ vstage' = 2
    /\ UNCHANGED <<vin, vonce, vsets>>

CfgIdle ==
    /\ g_config = ZeroConfig
    /\ config_keyboard_devices = NULL
    /\ config_num_devices = 0
    /\ heap = EmptyHeap
    /\ debug_enabled = 1
    /\ conf_file = MissingFile
    /\ phase = "boot"
    /\ nreloads = 0
    /\ nfailures = 0
    /\ live_file = MissingFile
    /\ last = NoLast

\* ------------------------------------------------------------------------
\* main.c: the PID file, toggle, signals, startup and shutdown of several
\* invocations of the program.  An invocation's PID is its number.  flock()
\* locks belong to the open file description and vanish with its last
\* close or with the process.
\* ------------------------------------------------------------------------
Procs == 1..NProcs
Inodes == 1..NProcs
POLL_LIMIT == 50
EXIT_FAILURE == 1
SignalDeath == 128

Alive(p) == pc[p] \notin {"idle", "exited", "killed"}

\* an inode is in use while PID_FILE names it or a descriptor is open on it
InUse(i) == pid_path = i \/ \E p \in Procs : pid_fd[p] = i \/ rd_fd[p] = i
FreshInode == CHOOSE i \in Inodes : ~InUse(i) /\ \A j \in Inodes : ~InUse(j) => i <= j

\* the locks after every descriptor of p has been closed
ExReleased(p) == [i \in Inodes |-> IF ex_lock[i] = p THEN 0 ELSE ex_lock[i]]
ShReleased(p) == [i \in Inodes |-> sh_lock[i] \ {p}]

PidIdle ==
    /\ pc = [p \in Procs |-> "idle"]
    /\ pid_fd = [p \in Procs |-> 0]
    /\ rd_fd = [p \in Procs |-> 0]
    /\ running_pid = [p \in Procs |-> 0]
    /\ poll_i = [p \in Procs |-> 0]
    /\ handlers = [p \in Procs |-> FALSE]
    /\ running = [p \in Procs |-> 0]
    /\ exit_code = [p \in Procs |-> 0]
    /\ cl_code = [p \in Procs |-> 0]
    /\ acquired = [p \in Procs |-> 0]
    /\ pid_path = 0
    /\ content = [i \in Inodes |-> 0]
    /\ ex_lock = [i \in Inodes |-> 0]
    /\ sh_lock = [i \in Inodes |-> {}]
    /\ init_log = [p \in Procs |-> <<>>]
    /\ cl_log = [p \in Procs |-> <<>>]
    /\ signalled = [p \in Procs |-> FALSE]
    /\ toggle_log = [p \in Procs |-> <<>>]

\* main.c:288-321  system_initialize_components, in its order
InitSteps == <<"wayland_init", "animation_init", "input_start_monitoring",
               "animation_start">>
\* main.c:329-342  what system_cleanup_and_exit calls after it has removed
\* the PID file, in its order
CleanupSteps == <<"config_watcher_cleanup", "animation_cleanup", "wayland_cleanup",
                  "input_cleanup", "config_cleanup">>

fsvars == <<pid_path, content, ex_lock, sh_lock>>

\* return from main() or exit(): the kernel closes the descriptors
Exits(p, code) ==
    /\ pc' = [pc EXCEPT ![p] = "exited"]
    /\ exit_code' = [exit_code EXCEPT ![p] = code]
    /\ pid_fd' = [pid_fd EXCEPT ![p] = 0]
    /\ rd_fd' = [rd_fd EXCEPT ![p] = 0]
    /\ ex_lock' = ExReleased(p)
    /\ sh_lock' = ShReleased(p)

\* kill(q, sig) for SIGTERM / SIGINT (term) or SIGKILL (~term): with
\* signal_handler installed a SIGTERM only clears `running` (main.c:165);
\* otherwise the default action ends q.  SignalledPc is pc after it.
SignalledPc(q, term) ==
    IF term /\ handlers[q] THEN pc ELSE [pc EXCEPT ![q] = "killed"]

Deliver(q, term) ==
    IF term /\ handlers[q]
    THEN /\ running' = [running EXCEPT ![q] = 0]
         /\ signalled' = [signalled EXCEPT ![q] = TRUE]
         /\ UNCHANGED <<exit_code, pid_fd, rd_fd, ex_lock, sh_lock>>
    ELSE /\ exit_code' = [exit_code EXCEPT ![q] = SignalDeath]
         /\ pid_fd' = [pid_fd EXCEPT ![q] = 0]
         /\ rd_fd' = [rd_fd EXCEPT ![q] = 0]
         /\ ex_lock' = ExReleased(q)
         /\ sh_lock' = ShReleased(q)
         /\ UNCHANGED <<running, signalled>>

\* main.c:419-451  an invocation starts, with or without --toggle
StartAs(p, toggle_mode) ==
    /\ pc[p] = "idle"
    /\ pc' = [pc EXCEPT ![p] = IF toggle_mode THEN "t_open" ELSE "sig"]
    /\ UNCHANGED <<pid_fd, rd_fd, running_pid, poll_i, handlers, running,
                   exit_code, cl_code, acquired, fsvars,
                   init_log, cl_log, signalled, toggle_log>>

Start(p) == \E toggle_mode \in BOOLEAN : StartAs(p, toggle_mode)

\* main.c:82-85  process_get_running_pid: open(PID_FILE, O_RDONLY)
GetPidOpen(p) ==
    /\ UNCHANGED <<init_log, cl_log, signalled>>
    /\ pc[p] = "t_open"
    /\ IF pid_path = 0
       THEN /\ running_pid' = [running_pid EXCEPT ![p] = -1]
            /\ pc' = [pc EXCEPT ![p] = "sig"]
            /\ UNCHANGED rd_fd
       ELSE /\ rd_fd' = [rd_fd EXCEPT ![p] = pid_path]
            /\ pc' = [pc EXCEPT ![p] = "t_flock"]
            /\ UNCHANGED running_pid
    /\ UNCHANGED <<pid_fd, poll_i, handlers, running, exit_code, cl_code,
                   acquired, fsvars>>
    /\ toggle_log' = [toggle_log EXCEPT ![p] = Append(@, IF pid_path = 0 THEN "nofile" ELSE "opened")]

\* main.c:88-89  flock(fd, LOCK_SH | LOCK_NB), close(fd) when it is refused
GetPidFlock(p) ==
    /\ UNCHANGED <<init_log, cl_log, signalled, toggle_log>>
    /\ pc[p] = "t_flock"
    /\ IF ex_lock[rd_fd[p]] # 0
       THEN /\ rd_fd' = [rd_fd EXCEPT ![p] = 0]
            /\ pc' = [pc EXCEPT ![p] = "t_reopen"]
            /\ UNCHANGED sh_lock
       ELSE /\ sh_lock' = [sh_lock EXCEPT ![rd_fd[p]] = @ \cup {p}]
            /\ pc' = [pc EXCEPT ![p] = "t_read"]
            /\ UNCHANGED rd_fd
    /\ UNCHANGED <<pid_fd, running_pid, poll_i, handlers, running, exit_code,
                   cl_code, acquired, pid_path, content, ex_lock>>

\* main.c:90-94  the file is locked: open it again and read without a lock
GetPidReopen(p) ==
    /\ UNCHANGED <<init_log, cl_log, signalled>>
    /\ pc[p] = "t_reopen"
    /\ IF pid_path = 0
       THEN /\ running_pid' = [running_pid EXCEPT ![p] = -1]
            /\ pc' = [pc EXCEPT ![p] = "sig"]
            /\ UNCHANGED rd_fd
       ELSE /\ rd_fd' = [rd_fd EXCEPT ![p] = pid_path]
            /\ pc' = [pc EXCEPT ![p] = "t_read"]
            /\ UNCHANGED running_pid
    /\ UNCHANGED <<pid_fd, poll_i, handlers, running, exit_code, cl_code,
                   acquired, fsvars>>
    /\ toggle_log' = [toggle_log EXCEPT ![p] = Append(@, IF pid_path = 0 THEN "nofile" ELSE "opened")]

\* main.c:100-113  read, close, atoi: an empty file gives -1
GetPidRead(p) ==
    /\ UNCHANGED <<init_log, cl_log, signalled>>
    /\ pc[p] = "t_read"
    /\ LET pid == content[rd_fd[p]] IN
         /\ running_pid' = [running_pid EXCEPT ![p] = IF pid <= 0 THEN -1 ELSE pid]
         /\ pc' = [pc EXCEPT ![p] = IF pid <= 0 THEN "sig" ELSE "t_kill0"]
    /\ rd_fd' = [rd_fd EXCEPT ![p] = 0]
    /\ sh_lock' = ShReleased(p)
    /\ UNCHANGED <<pid_fd, poll_i, handlers, running, exit_code, cl_code,
                   acquired, pid_path, content, ex_lock>>
    /\ toggle_log' = [toggle_log EXCEPT ![p] = Append(@, IF content[rd_fd[p]] <= 0 THEN "empty" ELSE "read")]

\* the lookup, did it take every recorded process for dead
GetPidProbeStale(p) ==
    /\ UNCHANGED <<init_log, cl_log, signalled>>
    /\ pc[p] = "t_kill0"
    /\ pc' = [pc EXCEPT ![p] = "t_unlink"]
    /\ UNCHANGED <<pid_fd, rd_fd, running_pid, poll_i, handlers, running,
                   exit_code, cl_code, acquired, fsvars>>
    /\ toggle_log' = [toggle_log EXCEPT ![p] =
                        Append(@, IF Alive(running_pid[p]) THEN "alive" ELSE "dead")]

\* main.c:115-118  kill(pid, 0)
GetPidProbe(p) ==
    /\ UNCHANGED <<init_log, cl_log, signalled>>
    /\ pc[p] = "t_kill0"
    /\ pc' = [pc EXCEPT ![p] = IF Alive(running_pid[p]) THEN "t_term" ELSE "t_unlink"]
    /\ UNCHANGED <<pid_fd, rd_fd, running_pid, poll_i, handlers, running,
                   exit_code, cl_code, acquired, fsvars>>
    /\ toggle_log' = [toggle_log EXCEPT ![p] = Append(@, IF Alive(running_pid[p]) THEN "alive" ELSE "dead")]

\* main.c:120-122  the recorded process is gone: unlink(PID_FILE), return -1;
\* main.c:151-153 toggle then continues with the normal startup
GetPidUnlink(p) ==
    /\ UNCHANGED <<init_log, cl_log, signalled>>
    /\ pc[p] = "t_unlink"
    /\ pid_path' = 0
    /\ running_pid' = [running_pid EXCEPT ![p] = -1]
    /\ pc' = [pc EXCEPT ![p] = "sig"]
    /\ UNCHANGED <<pid_fd, rd_fd, poll_i, handlers, running, exit_code,
                   cl_code, acquired, content, ex_lock, sh_lock>>
    /\ toggle_log' = [toggle_log EXCEPT ![p] = Append(@, "unlink")]

\* main.c:128-131, 147-150  kill(running_pid, SIGTERM); toggle returns 1 when
\* the signal cannot be toggle_log
ToggleTerm(p) ==
    /\ UNCHANGED <<init_log, cl_log>>
    /\ pc[p] = "t_term"
    /\ LET q == running_pid[p] IN
         IF Alive(q)
         THEN /\ Deliver(q, TRUE)
              /\ pc' = [SignalledPc(q, TRUE) EXCEPT ![p] = "t_poll"]
              /\ poll_i' = [poll_i EXCEPT ![p] = 0]
         ELSE /\ Exits(p, 1)
              /\ UNCHANGED <<poll_i, running, signalled>>
    /\ toggle_log' = [toggle_log EXCEPT ![p] =
                        Append(@, IF Alive(running_pid[p]) THEN "SIGTERM"
                                  ELSE "SIGTERM_failed")]
    /\ UNCHANGED <<running_pid, handlers, cl_code, acquired, pid_path, content>>

\* main.c:133-139  one round of the grace loop: kill(running_pid, 0), usleep
TogglePoll(p) ==
    /\ UNCHANGED <<init_log, cl_log, signalled>>
    /\ pc[p] = "t_poll"
    /\ poll_i[p] < POLL_LIMIT
    /\ IF ~Alive(running_pid[p])
       THEN /\ Exits(p, 0)
            /\ UNCHANGED poll_i
       ELSE /\ poll_i' = [poll_i EXCEPT ![p] = @ + 1]
            /\ UNCHANGED <<pc, exit_code, pid_fd, rd_fd, ex_lock, sh_lock>>
    /\ UNCHANGED <<running_pid, handlers, running, cl_code, acquired,
                   pid_path, content>>
    /\ toggle_log' = IF ~Alive(running_pid[p])
                     THEN [toggle_log EXCEPT ![p] = Append(@, "gone")]
                     ELSE toggle_log

\* kill(running_pid, SIGKILL) without waiting for the loop to run out
ToggleKillEarly(p) ==
    /\ UNCHANGED <<init_log, cl_log>>
    /\ pc[p] = "t_poll"
    /\ LET q == running_pid[p] IN
         IF Alive(q)
         THEN /\ Deliver(q, FALSE)
              /\ pc' = [SignalledPc(q, FALSE) EXCEPT ![p] = "t_done"]
         ELSE /\ pc' = [pc EXCEPT ![p] = "t_done"]
              /\ UNCHANGED <<exit_code, pid_fd, rd_fd, ex_lock, sh_lock, running,
                             signalled>>
    /\ toggle_log' = [toggle_log EXCEPT ![p] = Append(@, "SIGKILL")]
    /\ UNCHANGED <<running_pid, poll_i, handlers, cl_code, acquired,
                   pid_path, content>>

\* main.c:141-144  the loop ran out: kill(running_pid, SIGKILL)
ToggleKill(p) ==
    /\ UNCHANGED <<init_log, cl_log>>
    /\ pc[p] = "t_poll"
    /\ poll_i[p] = POLL_LIMIT
    /\ LET q == running_pid[p] IN
         IF Alive(q)
         THEN /\ Deliver(q, FALSE)
              /\ pc' = [SignalledPc(q, FALSE) EXCEPT ![p] = "t_done"]
         ELSE /\ pc' = [pc EXCEPT ![p] = "t_done"]
              /\ UNCHANGED <<exit_code, pid_fd, rd_fd, ex_lock, sh_lock, running,
                             signalled>>
    /\ toggle_log' = [toggle_log EXCEPT ![p] = Append(@, "SIGKILL")]
    /\ UNCHANGED <<running_pid, poll_i, handlers, cl_code, acquired,
                   pid_path, content>>

\* main.c:145, 155, 447-449  toggle returns 0 and main returns it
ToggleDone(p) ==
    /\ UNCHANGED <<init_log, cl_log, signalled, toggle_log>>
    /\ pc[p] = "t_done"
    /\ Exits(p, 0)
    /\ UNCHANGED <<running_pid, poll_i, handlers, running, cl_code, acquired,
                   pid_path, content>>

\* main.c:454-458  signal_setup_handlers
SignalSetup(p) ==
    /\ UNCHANGED <<init_log, cl_log, signalled, toggle_log>>
    /\ pc[p] = "sig"
    /\ handlers' = [handlers EXCEPT ![p] = TRUE]
    /\ pc' = [pc EXCEPT ![p] = "c_open"]
    /\ UNCHANGED <<pid_fd, rd_fd, running_pid, poll_i, running, exit_code,
                   cl_code, acquired, fsvars>>

\* main.c:50-54  process_create_pid_file: open(PID_FILE, O_CREAT | O_WRONLY |
\* O_TRUNC) creates the file, or empties the one that is there; on failure
\* it returns -1 and main returns EXIT_FAILURE (main.c:465-467)
CreateOpen(p) ==
    /\ UNCHANGED <<init_log, cl_log, signalled, toggle_log>>
    /\ pc[p] = "c_open"
    /\ \E opened \in BOOLEAN :
         IF opened
         THEN /\ LET i == IF pid_path = 0 THEN FreshInode ELSE pid_path IN
                   /\ pid_path' = i
                   /\ content' = [content EXCEPT ![i] = 0]
                   /\ pid_fd' = [pid_fd EXCEPT ![p] = i]
              /\ pc' = [pc EXCEPT ![p] = "c_flock"]
              /\ UNCHANGED <<rd_fd, exit_code, acquired, ex_lock, sh_lock>>
         ELSE /\ acquired' = [acquired EXCEPT ![p] = -1]
              /\ Exits(p, EXIT_FAILURE)
              /\ UNCHANGED <<pid_path, content>>
    /\ UNCHANGED <<running_pid, poll_i, handlers, running, cl_code>>

\* main.c:56-62  flock(fd, LOCK_EX | LOCK_NB): refused while any other open
\* description holds a lock on the inode; then -2 and main returns
\* EXIT_FAILURE (main.c:462-464)
CreateFlock(p) ==
    /\ UNCHANGED <<init_log, cl_log, signalled, toggle_log>>
    /\ pc[p] = "c_flock"
    /\ LET i == pid_fd[p] IN
         IF ex_lock[i] # 0 \/ sh_lock[i] # {}
         THEN /\ acquired' = [acquired EXCEPT ![p] = -2]
              /\ Exits(p, EXIT_FAILURE)
         ELSE /\ ex_lock' = [ex_lock EXCEPT ![i] = p]
              /\ pc' = [pc EXCEPT ![p] = "c_write"]
              /\ UNCHANGED <<acquired, exit_code, pid_fd, rd_fd, sh_lock>>
    /\ UNCHANGED <<running_pid, poll_i, handlers, running, cl_code,
                   pid_path, content>>

\* main.c:67-74  write the PID and keep the descriptor; a failed write
\* closes it and returns -1
CreateWrite(p) ==
    /\ UNCHANGED <<init_log, cl_log, signalled, toggle_log>>
    /\ pc[p] = "c_write"
    /\ \E written \in BOOLEAN :
         IF written
         THEN /\ content' = [content EXCEPT ![pid_fd[p]] = p]
              /\ acquired' = [acquired EXCEPT ![p] = pid_fd[p]]
              /\ pc' = [pc EXCEPT ![p] = "load"]
              /\ UNCHANGED <<exit_code, pid_fd, rd_fd, ex_lock, sh_lock>>
         ELSE /\ acquired' = [acquired EXCEPT ![p] = -1]
              /\ Exits(p, EXIT_FAILURE)
              /\ UNCHANGED content
    /\ UNCHANGED <<running_pid, poll_i, handlers, running, cl_code, pid_path>>

\* main.c:471-475  load_config; on failure main returns EXIT_FAILURE
StartupLoad(p) ==
    /\ UNCHANGED <<init_log, cl_log, signalled, toggle_log>>
    /\ pc[p] = "load"
    /\ \E result \in {BONGOCAT_SUCCESS, BONGOCAT_ERROR_MEMORY} :
         IF result = BONGOCAT_SUCCESS
         THEN /\ pc' = [pc EXCEPT ![p] = IF watch_config[p] THEN "watch" ELSE "init"]
              /\ UNCHANGED <<exit_code, pid_fd, rd_fd, ex_lock, sh_lock>>
         ELSE Exits(p, EXIT_FAILURE)
    /\ UNCHANGED <<running_pid, poll_i, handlers, running, cl_code, acquired,
                   pid_path, content>>

\* main.c:485-488, 288-321  system_initialize_components, one call at a
\* time: the first that fails ends it, and main calls
\* system_cleanup_and_exit(1)
InitComponents(p) ==
    /\ UNCHANGED <<cl_log, signalled, toggle_log>>
    /\ pc[p] = "init"
    /\ \E result \in {BONGOCAT_SUCCESS, BONGOCAT_ERROR_MEMORY} :
         IF result = BONGOCAT_SUCCESS
         THEN /\ init_log' = [init_log EXCEPT ![p] = Append(@, InitSteps[Len(@) + 1])]
              /\ pc' = [pc EXCEPT ![p] = IF Len(init_log[p]) + 1 = Len(InitSteps)
                                         THEN "run_enter" ELSE "init"]
              /\ UNCHANGED cl_code
         ELSE /\ pc' = [pc EXCEPT ![p] = "cl_unlink"]
              /\ cl_code' = [cl_code EXCEPT ![p] = 1]
              /\ UNCHANGED init_log
    /\ UNCHANGED <<pid_fd, rd_fd, running_pid, poll_i, handlers, running,
                   exit_code, acquired, fsvars>>

\* main.c:498  wayland_run(&g_wayland_ctx, &running) starts: it raises the
\* flag it will watch
RunEnter(p) ==
    /\ UNCHANGED <<init_log, cl_log, signalled, toggle_log>>
    /\ pc[p] = "run_enter"
    /\ running' = [running EXCEPT ![p] = 1]
    /\ pc' = [pc EXCEPT ![p] = "run"]
    /\ UNCHANGED <<pid_fd, rd_fd, running_pid, poll_i, handlers, exit_code,
                   cl_code, acquired, fsvars>>

\* main.c:498-505  wayland_run returns: with success once the flag is
\* cleared, system_cleanup_and_exit(0); with an error, (1)
RunReturn(p) ==
    /\ UNCHANGED <<init_log, cl_log, signalled, toggle_log>>
    /\ pc[p] = "run"
    /\ \E error \in BOOLEAN :
         /\ error \/ running[p] = 0
         /\ cl_code' = [cl_code EXCEPT ![p] = IF error THEN 1 ELSE 0]
    /\ pc' = [pc EXCEPT ![p] = "cl_unlink"]
    /\ UNCHANGED <<pid_fd, rd_fd, running_pid, poll_i, handlers, running,
                   exit_code, acquired, fsvars>>

\* main.c:326-327  system_cleanup_and_exit begins with process_remove_pid_file
CleanupUnlink(p) ==
    /\ UNCHANGED <<init_log, signalled, toggle_log>>
    /\ pc[p] = "cl_unlink"
    /\ pid_path' = 0
    /\ cl_log' = [cl_log EXCEPT ![p] = Append(@, "process_remove_pid_file")]
    /\ pc' = [pc EXCEPT ![p] = "cl_rest"]
    /\ UNCHANGED <<pid_fd, rd_fd, running_pid, poll_i, handlers, running,
                   exit_code, cl_code, acquired, content, ex_lock, sh_lock>>

\* main.c:329-342  the watcher, animation, wayland, input and configuration
\* are cleaned up, one call at a time; the calls return nothing and nothing
\* is tested between them
CleanupSubsystems(p) ==
    /\ UNCHANGED <<init_log, signalled, toggle_log>>
    /\ pc[p] = "cl_rest"
    /\ cl_log' = [cl_log EXCEPT ![p] = Append(@, CleanupSteps[Len(@)])]
    /\ pc' = [pc EXCEPT ![p] = IF Len(cl_log[p]) = Len(CleanupSteps)
                               THEN "cl_exit" ELSE "cl_rest"]
    /\ UNCHANGED <<pid_fd, rd_fd, running_pid, poll_i, handlers, running,
                   exit_code, cl_code, acquired, fsvars>>

\* exit(0) whatever the argument of system_cleanup_and_exit was
CleanupExitZero(p) ==
    /\ UNCHANGED <<init_log, cl_log, signalled, toggle_log>>
    /\ pc[p] = "cl_exit"
    /\ Exits(p, 0)
    /\ UNCHANGED <<running_pid, poll_i, handlers, running, cl_code, acquired,
                   pid_path, content>>

\* main.c:355-356  exit(exit_code)
CleanupExit(p) ==
    /\ UNCHANGED <<init_log, cl_log, signalled, toggle_log>>
    /\ pc[p] = "cl_exit"
    /\ Exits(p, cl_code[p])
    /\ UNCHANGED <<running_pid, poll_i, handlers, running, cl_code, acquired,
                   pid_path, content>>

\* the user or the session sends SIGINT / SIGTERM to an invocation
Interrupt(q) ==
    /\ UNCHANGED <<init_log, cl_log, toggle_log>>
    /\ Alive(q)
    /\ Deliver(q, TRUE)
    /\ pc' = SignalledPc(q, TRUE)
    /\ UNCHANGED <<running_pid, poll_i, handlers, cl_code, acquired,
                   pid_path, content>>

\* ------------------------------------------------------------------------
\* The configuration watcher (-w): config_setup_watcher and the thread that
\* calls config_reload_callback.  The thread itself (config_watcher_init,
\* config_watcher_start, config_watcher_cleanup) is modelled from its
\* contract: it compares the file's modification time with the one it saw
\* last and calls the callback, on its own stack, when they differ.
\* ------------------------------------------------------------------------
Workers == 1..2

InCallback(p, w) == w_pc[p][w] \in {"cb_load", "cb_swap", "cb_update", "cb_restart"}

WatchIdle ==
    /\ watch_config = [p \in Procs |-> FALSE]
    /\ w_pc = [p \in Procs |-> [w \in Workers |-> "off"]]
    /\ w_last = [p \in Procs |-> 0]
    /\ conf_mtime = 0
    /\ w_calls = [p \in Procs |-> 0]
    /\ cb_result = [p \in Procs |-> "none"]

\* the watcher is started twice: two threads poll the file
ConfigSetupWatcherTwice(p) ==
    /\ pc[p] = "watch"
    /\ \E initialized \in BOOLEAN :
         IF initialized
         THEN /\ w_pc' = [w_pc EXCEPT ![p] = [w \in Workers |-> "poll"]]
              /\ w_last' = [w_last EXCEPT ![p] = conf_mtime]
         ELSE UNCHANGED <<w_pc, w_last>>
    /\ pc' = [pc EXCEPT ![p] = "init"]
    /\ UNCHANGED <<pid_fd, rd_fd, running_pid, poll_i, handlers, running, exit_code,
                   cl_code, acquired, fsvars, init_log, cl_log, signalled, toggle_log>>
    /\ UNCHANGED <<watch_config, conf_mtime, w_calls, cb_result>>

\* main.c:479-482, 271-282  if (args.watch_config) config_setup_watcher():
\* config_watcher_init, then config_watcher_start starts the one thread of
\* g_config_watcher; a failed init is a warning and main goes on either way
ConfigSetupWatcher(p) ==
    /\ pc[p] = "watch"
    /\ \E initialized \in BOOLEAN :
         IF initialized
         THEN /\ w_pc' = [w_pc EXCEPT ![p][1] = "poll"]
              /\ w_last' = [w_last EXCEPT ![p] = conf_mtime]
         ELSE UNCHANGED <<w_pc, w_last>>
    /\ pc' = [pc EXCEPT ![p] = "init"]
    /\ UNCHANGED <<pid_fd, rd_fd, running_pid, poll_i, handlers, running, exit_code,
                   cl_code, acquired, fsvars, init_log, cl_log, signalled, toggle_log>>
    /\ UNCHANGED <<watch_config, conf_mtime, w_calls, cb_result>>

\* the user saves the configuration file
TouchFile ==
    /\ conf_mtime < MaxEdits
    /\ conf_mtime' = conf_mtime + 1
    /\ UNCHANGED <<watch_config, w_pc, w_last, w_calls, cb_result>>
    /\ UNCHANGED pidvars

\* a thread of the watcher runs while its process does, and polls until
\* config_watcher_cleanup (main.c:330) has been called
WatcherRuns(p) ==
    /\ Alive(p)
    /\ \A i \in 1..Len(cl_log[p]) : cl_log[p][i] # "config_watcher_cleanup"

\* one poll that finds the file changed: the thread notes the new time and
\* calls the callback it was given (main.c:274)
WatchPoll(p, w) ==
    /\ w_pc[p][w] = "poll"
    /\ WatcherRuns(p)
    /\ conf_mtime # w_last[p]
    /\ w_last' = [w_last EXCEPT ![p] = conf_mtime]
    /\ w_pc' = [w_pc EXCEPT ![p][w] = "cb_load"]
    /\ w_calls' = [w_calls EXCEPT ![p] = @ + 1]
    /\ UNCHANGED <<watch_config, conf_mtime, cb_result>>
    /\ UNCHANGED pidvars

\* the failed load ends the process through system_cleanup_and_exit(1)
CbLoadOrDie(p, w) ==
    /\ w_pc[p][w] = "cb_load"
    /\ Alive(p)
    /\ \E result \in {BONGOCAT_SUCCESS, BONGOCAT_ERROR_MEMORY} :
         IF result = BONGOCAT_SUCCESS
         THEN /\ w_pc' = [w_pc EXCEPT ![p][w] = "cb_swap"]
              /\ UNCHANGED <<cb_result, pc, cl_code>>
         ELSE /\ w_pc' = [w_pc EXCEPT ![p][w] = "poll"]
              /\ cb_result' = [cb_result EXCEPT ![p] = "load_failed"]
              /\ pc' = [pc EXCEPT ![p] = "cl_unlink"]
              /\ cl_code' = [cl_code EXCEPT ![p] = 1]
    /\ UNCHANGED <<watch_config, w_last, conf_mtime, w_calls>>
    /\ UNCHANGED <<pid_fd, rd_fd, running_pid, poll_i, handlers, running, exit_code,
                   acquired, fsvars, init_log, cl_log, signalled, toggle_log>>

\* main.c:233-244  config_reload_callback: load_config(&temp_config, path);
\* a failure is logged ("Keeping current configuration") and the callback
\* returns
CbLoad(p, w) ==
    /\ w_pc[p][w] = "cb_load"
    /\ Alive(p)
    /\ \E result \in {BONGOCAT_SUCCESS, BONGOCAT_ERROR_MEMORY} :
         IF result = BONGOCAT_SUCCESS
         THEN /\ w_pc' = [w_pc EXCEPT ![p][w] = "cb_swap"]
              /\ UNCHANGED cb_result
         ELSE /\ w_pc' = [w_pc EXCEPT ![p][w] = "poll"]
              /\ cb_result' = [cb_result EXCEPT ![p] = "load_failed"]
    /\ UNCHANGED <<watch_config, w_last, conf_mtime, w_calls>>
    /\ UNCHANGED pidvars

\* main.c:247-248  const config_t old_config = g_config; g_config = temp_config;
CbSwap(p, w) ==
    /\ w_pc[p][w] = "cb_swap"
    /\ Alive(p)
    /\ w_pc' = [w_pc EXCEPT ![p][w] = "cb_update"]
    /\ UNCHANGED <<watch_config, w_last, conf_mtime, w_calls, cb_result>>
    /\ UNCHANGED pidvars

\* main.c:251  wayland_update_config(&g_wayland_ctx, &g_config, &g_animation_ctx)
CbUpdate(p, w) ==
    /\ w_pc[p][w] = "cb_update"
    /\ Alive(p)
    /\ w_pc' = [w_pc EXCEPT ![p][w] = "cb_restart"]
    /\ UNCHANGED <<watch_config, w_last, conf_mtime, w_calls, cb_result>>
    /\ UNCHANGED pidvars

\* main.c:254-268  if (config_devices_changed(..)) input_restart_monitoring(..),
\* whose failure is logged; then the callback returns
CbRestart(p, w) ==
    /\ w_pc[p][w] = "cb_restart"
    /\ Alive(p)
    /\ \E changed \in BOOLEAN, input_result \in {BONGOCAT_SUCCESS, BONGOCAT_ERROR_MEMORY} :
         cb_result' = [cb_result EXCEPT ![p] =
                          IF ~changed THEN "reloaded"
                          ELSE IF input_result = BONGOCAT_SUCCESS THEN "restarted"
                          ELSE "restart_failed"]
    /\ w_pc' = [w_pc EXCEPT ![p][w] = "poll"]
    /\ UNCHANGED <<watch_config, w_last, conf_mtime, w_calls>>
    /\ UNCHANGED pidvars

\* ------------------------------------------------------------------------
\* signal_handler, call by call
\* ------------------------------------------------------------------------
\* main.c:186-199  the signals signal_setup_handlers routes to signal_handler
Signals == {"SIGINT", "SIGTERM", "SIGCHLD"}

\* main.c:161-176  what signal_handler calls and writes for a signal
SignalHandlerCalls(sig) ==
    IF sig \in {"SIGINT", "SIGTERM"} THEN {"bongocat_log_info", "running = 0"}
    ELSE IF sig = "SIGCHLD" THEN {"waitpid"}
    ELSE {"bongocat_log_warning"}

\* a signal is delivered to q: signal_handler runs if it is installed;
\* otherwise SIGINT / SIGTERM end q and SIGCHLD is ignored
Raise(q, sig) ==
    /\ IF sig = "SIGCHLD"
       THEN Alive(q) /\ handlers[q] /\ UNCHANGED pidvars
       ELSE Interrupt(q)
    /\ h_log' = IF handlers[q]
                THEN [h_log EXCEPT ![q] = @ \cup SignalHandlerCalls(sig)]
                ELSE h_log

\* ------------------------------------------------------------------------
\* config_devices_changed on arbitrary device lists
\* ------------------------------------------------------------------------
\* the device lists compared: up to MaxDevs paths each, repeats allowed
DevPaths == {DEFAULT_DEVICE, Event3, Event7}
DevLists == UNION {[1..n -> DevPaths] : n \in 0..MaxDevs}

\* a configuration whose device array holds devs, and the two arrays in memory
DcConfig(devs, blk) ==
    [ZeroConfig EXCEPT !.keyboard_devices = IF Len(devs) = 0 THEN NULL ELSE blk,
                       !.num_keyboard_devices = Len(devs)]
DcHeap(old, new) ==
    [b \in Blocks |-> IF b = 1 THEN [live |-> TRUE, data |-> old]
                      ELSE IF b = 2 THEN [live |-> TRUE, data |-> new]
                      ELSE EmptyHeap[b]]

\* main.c:256  config_devices_changed(&old_config, &g_config)
DcCompare ==
    /\ dc_changed = "none"
    /\ dc_changed' = IF ConfigDevicesChanged(DcConfig(dc_old, 1), DcConfig(dc_new, 2),
                                             DcHeap(dc_old, dc_new))
                     THEN "changed" ELSE "same"
    /\ UNCHANGED <<dc_old, dc_new>>

\* nothing compared, no watcher, no signal handled
ExtIdle ==
    /\ dc_old = <<>> /\ dc_new = <<>> /\ dc_changed = "none"
    /\ WatchIdle
    /\ h_log = [p \in Procs |-> {}]

\* ------------------------------------------------------------------------
\* Specifications
\* ------------------------------------------------------------------------
Init == CfgInit /\ RaceIdle /\ ValIdle /\ PidIdle /\ ExtIdle

Next ==
    \/ (MainLoadConfig /\ UNCHANGED <<racevars, valvars, pidvars, extvars>>)
    \/ (EditFile /\ UNCHANGED <<racevars, valvars, pidvars, extvars>>)
    \/ (ConfigReloadCallback /\ UNCHANGED <<racevars, valvars, pidvars, extvars>>)

\* the configuration life of one process: load, edits of the file, reloads
Spec == Init /\ [][Next]_vars

ValInit == CfgIdle /\ RaceIdle /\ ValIdle /\ PidIdle /\ ExtIdle

ValNext ==
    \/ (VSet /\ UNCHANGED <<cfgvars, racevars, pidvars, extvars>>)
    \/ (VValidate /\ UNCHANGED <<cfgvars, racevars, pidvars, extvars>>)
    \/ (VRevalidate /\ UNCHANGED <<cfgvars, racevars, pidvars, extvars>>)

\* validate_config applied, twice, to configurations with arbitrary fields
SpecValidate == ValInit /\ [][ValNext]_vars

RaceNext ==
    \/ (RaceEditFile /\ UNCHANGED <<valvars, pidvars, extvars>>)
    \/ (RlLoad /\ UNCHANGED <<valvars, pidvars, extvars>>)
    \/ (RlCopy /\ UNCHANGED <<valvars, pidvars, extvars>>)
    \/ (RlApply /\ UNCHANGED <<valvars, pidvars, extvars>>)
    \/ (RdRead /\ UNCHANGED <<valvars, pidvars, extvars>>)
    \/ (RdDone /\ UNCHANGED <<valvars, pidvars, extvars>>)

\* a running process: the watcher thread runs the reload callback while
\* another thread reads the live configuration
RaceStart == RaceInit /\ ValIdle /\ PidIdle /\ ExtIdle

SpecRace == RaceStart /\ [][RaceNext]_vars

PidInit == CfgIdle /\ RaceIdle /\ ValIdle /\ PidIdle /\ ExtIdle

\* the invocations that run side by side
Contenders == {1, 2}

PidNext ==
    \/ \E p \in Contenders : Start(p) /\ UNCHANGED <<cfgvars, racevars, valvars, extvars>>
    \/ \E p \in Contenders : GetPidOpen(p) /\ UNCHANGED <<cfgvars, racevars, valvars, extvars>>
    \/ \E p \in Contenders : GetPidFlock(p) /\ UNCHANGED <<cfgvars, racevars, valvars, extvars>>
    \/ \E p \in Contenders : GetPidReopen(p) /\ UNCHANGED <<cfgvars, racevars, valvars, extvars>>
    \/ \E p \in Contenders : GetPidRead(p) /\ UNCHANGED <<cfgvars, racevars, valvars, extvars>>
    \/ \E p \in Contenders : GetPidProbe(p) /\ UNCHANGED <<cfgvars, racevars, valvars, extvars>>
    \/ \E p \in Contenders : GetPidUnlink(p) /\ UNCHANGED <<cfgvars, racevars, valvars, extvars>>
    \/ \E p \in Contenders : ToggleTerm(p) /\ UNCHANGED <<cfgvars, racevars, valvars, extvars>>
    \/ \E p \in Contenders : TogglePoll(p) /\ UNCHANGED <<cfgvars, racevars, valvars, extvars>>
    \/ \E p \in Contenders : ToggleKill(p) /\ UNCHANGED <<cfgvars, racevars, valvars, extvars>>
    \/ \E p \in Contenders : ToggleDone(p) /\ UNCHANGED <<cfgvars, racevars, valvars, extvars>>
    \/ \E p \in Contenders : SignalSetup(p) /\ UNCHANGED <<cfgvars, racevars, valvars, extvars>>
    \/ \E p \in Contenders : CreateOpen(p) /\ UNCHANGED <<cfgvars, racevars, valvars, extvars>>
    \/ \E p \in Contenders : CreateFlock(p) /\ UNCHANGED <<cfgvars, racevars, valvars, extvars>>
    \/ \E p \in Contenders : CreateWrite(p) /\ UNCHANGED <<cfgvars, racevars, valvars, extvars>>
    \/ \E p \in Contenders : StartupLoad(p) /\ UNCHANGED <<cfgvars, racevars, valvars, extvars>>
    \/ \E p \in Contenders : InitComponents(p) /\ UNCHANGED <<cfgvars, racevars, valvars, extvars>>
    \/ \E p \in Contenders : RunEnter(p) /\ UNCHANGED <<cfgvars, racevars, valvars, extvars>>
    \/ \E p \in Contenders : RunReturn(p) /\ UNCHANGED <<cfgvars, racevars, valvars, extvars>>
    \/ \E p \in Contenders : CleanupUnlink(p) /\ UNCHANGED <<cfgvars, racevars, valvars, extvars>>
    \/ \E p \in Contenders : CleanupSubsystems(p) /\ UNCHANGED <<cfgvars, racevars, valvars, extvars>>
    \/ \E p \in Contenders : CleanupExit(p) /\ UNCHANGED <<cfgvars, racevars, valvars, extvars>>
    \/ \E p \in Contenders : Interrupt(p) /\ UNCHANGED <<cfgvars, racevars, valvars, extvars>>

\* two invocations of the program contend for the PID file
SpecPid == PidInit /\ [][PidNext]_vars

\* one invocation, from its start to its exit
Main == 1

LifeNext ==
    \/ (Start(Main) /\ UNCHANGED <<cfgvars, racevars, valvars, extvars>>)
    \/ (GetPidOpen(Main) /\ UNCHANGED <<cfgvars, racevars, valvars, extvars>>)
    \/ (SignalSetup(Main) /\ UNCHANGED <<cfgvars, racevars, valvars, extvars>>)
    \/ (CreateOpen(Main) /\ UNCHANGED <<cfgvars, racevars, valvars, extvars>>)
    \/ (CreateFlock(Main) /\ UNCHANGED <<cfgvars, racevars, valvars, extvars>>)
    \/ (CreateWrite(Main) /\ UNCHANGED <<cfgvars, racevars, valvars, extvars>>)
    \/ (StartupLoad(Main) /\ UNCHANGED <<cfgvars, racevars, valvars, extvars>>)
    \/ (InitComponents(Main) /\ UNCHANGED <<cfgvars, racevars, valvars, extvars>>)
    \/ (RunEnter(Main) /\ UNCHANGED <<cfgvars, racevars, valvars, extvars>>)
    \/ (RunReturn(Main) /\ UNCHANGED <<cfgvars, racevars, valvars, extvars>>)
    \/ (CleanupUnlink(Main) /\ UNCHANGED <<cfgvars, racevars, valvars, extvars>>)
    \/ (CleanupSubsystems(Main) /\ UNCHANGED <<cfgvars, racevars, valvars, extvars>>)
    \/ (CleanupExit(Main) /\ UNCHANGED <<cfgvars, racevars, valvars, extvars>>)
    \/ (Interrupt(Main) /\ UNCHANGED <<cfgvars, racevars, valvars, extvars>>)

\* the life of one invocation: startup, the main loop, signals, shutdown
SpecLife == PidInit /\ [][LifeNext]_vars

\* the same, where a shutdown that has started keeps making its calls: they
\* are straight-line code of the main thread
SpecLifeFair ==
    /\ PidInit /\ [][LifeNext]_vars
    /\ WF_vars(CleanupUnlink(Main) /\ UNCHANGED <<cfgvars, racevars, valvars, extvars>>)
    /\ WF_vars(CleanupSubsystems(Main) /\ UNCHANGED <<cfgvars, racevars, valvars, extvars>>)
    /\ WF_vars(CleanupExit(Main) /\ UNCHANGED <<cfgvars, racevars, valvars, extvars>>)

\* one running instance and one invocation with --toggle
Instance == 1
Toggler == 2

ToggleNext ==
    \/ (StartAs(Instance, FALSE) /\ UNCHANGED <<cfgvars, racevars, valvars, extvars>>)
    \/ (StartAs(Toggler, TRUE) /\ UNCHANGED <<cfgvars, racevars, valvars, extvars>>)
    \/ \E p \in {Instance, Toggler} : GetPidOpen(p) /\ UNCHANGED <<cfgvars, racevars, valvars, extvars>>
    \/ \E p \in {Instance, Toggler} : GetPidFlock(p) /\ UNCHANGED <<cfgvars, racevars, valvars, extvars>>
    \/ \E p \in {Instance, Toggler} : GetPidReopen(p) /\ UNCHANGED <<cfgvars, racevars, valvars, extvars>>
    \/ \E p \in {Instance, Toggler} : GetPidRead(p) /\ UNCHANGED <<cfgvars, racevars, valvars, extvars>>
    \/ \E p \in {Instance, Toggler} : GetPidProbe(p) /\ UNCHANGED <<cfgvars, racevars, valvars, extvars>>
    \/ \E p \in {Instance, Toggler} : GetPidUnlink(p) /\ UNCHANGED <<cfgvars, racevars, valvars, extvars>>
    \/ \E p \in {Instance, Toggler} : ToggleTerm(p) /\ UNCHANGED <<cfgvars, racevars, valvars, extvars>>
    \/ \E p \in {Instance, Toggler} : TogglePoll(p) /\ UNCHANGED <<cfgvars, racevars, valvars, extvars>>
    \/ \E p \in {Instance, Toggler} : ToggleKill(p) /\ UNCHANGED <<cfgvars, racevars, valvars, extvars>>
    \/ \E p \in {Instance, Toggler} : ToggleDone(p) /\ UNCHANGED <<cfgvars, racevars, valvars, extvars>>
    \/ \E p \in {Instance, Toggler} : SignalSetup(p) /\ UNCHANGED <<cfgvars, racevars, valvars, extvars>>
    \/ \E p \in {Instance, Toggler} : CreateOpen(p) /\ UNCHANGED <<cfgvars, racevars, valvars, extvars>>
    \/ \E p \in {Instance, Toggler} : CreateFlock(p) /\ UNCHANGED <<cfgvars, racevars, valvars, extvars>>
    \/ \E p \in {Instance, Toggler} : CreateWrite(p) /\ UNCHANGED <<cfgvars, racevars, valvars, extvars>>
    \/ \E p \in {Instance, Toggler} : StartupLoad(p) /\ UNCHANGED <<cfgvars, racevars, valvars, extvars>>
    \/ \E p \in {Instance, Toggler} : InitComponents(p) /\ UNCHANGED <<cfgvars, racevars, valvars, extvars>>
    \/ \E p \in {Instance, Toggler} : RunEnter(p) /\ UNCHANGED <<cfgvars, racevars, valvars, extvars>>
    \/ \E p \in {Instance, Toggler} : RunReturn(p) /\ UNCHANGED <<cfgvars, racevars, valvars, extvars>>
    \/ \E p \in {Instance, Toggler} : CleanupUnlink(p) /\ UNCHANGED <<cfgvars, racevars, valvars, extvars>>
    \/ \E p \in {Instance, Toggler} : CleanupSubsystems(p) /\ UNCHANGED <<cfgvars, racevars, valvars, extvars>>
    \/ \E p \in {Instance, Toggler} : CleanupExit(p) /\ UNCHANGED <<cfgvars, racevars, valvars, extvars>>

\* an instance and a later --toggle invocation that looks it up and stops it
SpecToggle == PidInit /\ [][ToggleNext]_vars

\* an instance, a --toggle invocation that looks it up while the instance
\* lives, and an invocation that is started after the instance has gone
Newcomer == 3

StaleNext ==
    \/ (StartAs(Instance, FALSE) /\ UNCHANGED <<cfgvars, racevars, valvars, extvars>>)
    \/ (Alive(Instance) /\ StartAs(Toggler, TRUE) /\ UNCHANGED <<cfgvars, racevars, valvars, extvars>>)
    \/ (pc[Instance] \in {"exited", "killed"} /\ StartAs(Newcomer, FALSE) /\ UNCHANGED <<cfgvars, racevars, valvars, extvars>>)
    \/ \E p \in {Instance, Toggler, Newcomer} : GetPidOpen(p) /\ UNCHANGED <<cfgvars, racevars, valvars, extvars>>
    \/ \E p \in {Instance, Toggler, Newcomer} : GetPidFlock(p) /\ UNCHANGED <<cfgvars, racevars, valvars, extvars>>
    \/ \E p \in {Instance, Toggler, Newcomer} : GetPidReopen(p) /\ UNCHANGED <<cfgvars, racevars, valvars, extvars>>
    \/ \E p \in {Instance, Toggler, Newcomer} : GetPidRead(p) /\ UNCHANGED <<cfgvars, racevars, valvars, extvars>>
    \/ \E p \in {Instance, Toggler, Newcomer} : GetPidProbe(p) /\ UNCHANGED <<cfgvars, racevars, valvars, extvars>>
    \/ \E p \in {Instance, Toggler, Newcomer} : GetPidUnlink(p) /\ UNCHANGED <<cfgvars, racevars, valvars, extvars>>
    \/ \E p \in {Instance, Toggler, Newcomer} : ToggleTerm(p) /\ UNCHANGED <<cfgvars, racevars, valvars, extvars>>
    \/ \E p \in {Instance, Toggler, Newcomer} : TogglePoll(p) /\ UNCHANGED <<cfgvars, racevars, valvars, extvars>>
    \/ \E p \in {Instance, Toggler, Newcomer} : ToggleKill(p) /\ UNCHANGED <<cfgvars, racevars, valvars, extvars>>
    \/ \E p \in {Instance, Toggler, Newcomer} : ToggleDone(p) /\ UNCHANGED <<cfgvars, racevars, valvars, extvars>>
    \/ \E p \in {Instance, Toggler, Newcomer} : SignalSetup(p) /\ UNCHANGED <<cfgvars, racevars, valvars, extvars>>
    \/ \E p \in {Instance, Toggler, Newcomer} : CreateOpen(p) /\ UNCHANGED <<cfgvars, racevars, valvars, extvars>>
    \/ \E p \in {Instance, Toggler, Newcomer} : CreateFlock(p) /\ UNCHANGED <<cfgvars, racevars, valvars, extvars>>
    \/ \E p \in {Instance, Toggler, Newcomer} : CreateWrite(p) /\ UNCHANGED <<cfgvars, racevars, valvars, extvars>>
    \/ \E p \in {Instance, Toggler, Newcomer} : StartupLoad(p) /\ UNCHANGED <<cfgvars, racevars, valvars, extvars>>
    \/ \E p \in {Instance, Toggler, Newcomer} : InitComponents(p) /\ UNCHANGED <<cfgvars, racevars, valvars, extvars>>
    \/ \E p \in {Instance, Toggler, Newcomer} : RunEnter(p) /\ UNCHANGED <<cfgvars, racevars, valvars, extvars>>
    \/ \E p \in {Instance, Toggler, Newcomer} : RunReturn(p) /\ UNCHANGED <<cfgvars, racevars, valvars, extvars>>
    \/ \E p \in {Instance, Toggler, Newcomer} : CleanupUnlink(p) /\ UNCHANGED <<cfgvars, racevars, valvars, extvars>>
    \/ \E p \in {Instance, Toggler, Newcomer} : CleanupSubsystems(p) /\ UNCHANGED <<cfgvars, racevars, valvars, extvars>>
    \/ \E p \in {Instance, Toggler, Newcomer} : CleanupExit(p) /\ UNCHANGED <<cfgvars, racevars, valvars, extvars>>

SpecStale == PidInit /\ [][StaleNext]_vars

LoadStart ==
    /\ g_config = ZeroConfig
    /\ config_keyboard_devices = NULL
    /\ config_num_devices = 0
    /\ heap = EmptyHeap
    /\ debug_enabled = 1
    /\ conf_file \in LoadFiles
    /\ phase = "boot"
    /\ nreloads = 0
    /\ nfailures = 0
    /\ live_file = MissingFile
    /\ last = NoLast
    /\ RaceIdle /\ ValIdle /\ PidIdle /\ ExtIdle

LoadNext == MainLoadConfig /\ UNCHANGED <<racevars, valvars, pidvars, extvars>>

\* the first load_config of a process, for every small configuration file
SpecLoad == LoadStart /\ [][LoadNext]_vars

\* one invocation started with -w, its watcher thread and the saves of the
\* watched file
WatchInit ==
    /\ CfgIdle /\ RaceIdle /\ ValIdle /\ PidIdle
    /\ dc_old = <<>> /\ dc_new = <<>> /\ dc_changed = "none"
    /\ h_log = [p \in Procs |-> {}]
    /\ watch_config = [p \in Procs |-> p = Main]
    /\ w_pc = [p \in Procs |-> [w \in Workers |-> "off"]]
    /\ w_last = [p \in Procs |-> 0]
    /\ conf_mtime = 0
    /\ w_calls = [p \in Procs |-> 0]
    /\ cb_result = [p \in Procs |-> "none"]

WatchNext ==
    \/ (StartAs(Main, FALSE) /\ UNCHANGED <<cfgvars, racevars, valvars, extvars>>)
    \/ (SignalSetup(Main) /\ UNCHANGED <<cfgvars, racevars, valvars, extvars>>)
    \/ (CreateOpen(Main) /\ UNCHANGED <<cfgvars, racevars, valvars, extvars>>)
    \/ (CreateFlock(Main) /\ UNCHANGED <<cfgvars, racevars, valvars, extvars>>)
    \/ (CreateWrite(Main) /\ UNCHANGED <<cfgvars, racevars, valvars, extvars>>)
    \/ (StartupLoad(Main) /\ UNCHANGED <<cfgvars, racevars, valvars, extvars>>)
    \/ (ConfigSetupWatcher(Main) /\ UNCHANGED <<cfgvars, racevars, valvars, devvars, h_log>>)
    \/ (InitComponents(Main) /\ UNCHANGED <<cfgvars, racevars, valvars, extvars>>)
    \/ (RunEnter(Main) /\ UNCHANGED <<cfgvars, racevars, valvars, extvars>>)
    \/ (RunReturn(Main) /\ UNCHANGED <<cfgvars, racevars, valvars, extvars>>)
    \/ (CleanupUnlink(Main) /\ UNCHANGED <<cfgvars, racevars, valvars, extvars>>)
    \/ (CleanupSubsystems(Main) /\ UNCHANGED <<cfgvars, racevars, valvars, extvars>>)
    \/ (CleanupExit(Main) /\ UNCHANGED <<cfgvars, racevars, valvars, extvars>>)
    \/ (Interrupt(Main) /\ UNCHANGED <<cfgvars, racevars, valvars, extvars>>)
    \/ (TouchFile /\ UNCHANGED <<cfgvars, racevars, valvars, devvars, h_log>>)
    \/ \E w \in Workers : WatchPoll(Main, w) /\ UNCHANGED <<cfgvars, racevars, valvars, devvars, h_log>>
    \/ \E w \in Workers : CbLoad(Main, w) /\ UNCHANGED <<cfgvars, racevars, valvars, devvars, h_log>>
    \/ \E w \in Workers : CbSwap(Main, w) /\ UNCHANGED <<cfgvars, racevars, valvars, devvars, h_log>>
    \/ \E w \in Workers : CbUpdate(Main, w) /\ UNCHANGED <<cfgvars, racevars, valvars, devvars, h_log>>
    \/ \E w \in Workers : CbRestart(Main, w) /\ UNCHANGED <<cfgvars, racevars, valvars, devvars, h_log>>

SpecWatch == WatchInit /\ [][WatchNext]_vars

\* the same, where the watcher thread keeps polling and a callback that has
\* been entered keeps making its calls
SpecWatchFair ==
    /\ WatchInit /\ [][WatchNext]_vars
    /\ \A w \in Workers :
         /\ WF_vars(WatchPoll(Main, w) /\ UNCHANGED <<cfgvars, racevars, valvars, devvars, h_log>>)
         /\ WF_vars(CbLoad(Main, w) /\ UNCHANGED <<cfgvars, racevars, valvars, devvars, h_log>>)
         /\ WF_vars(CbSwap(Main, w) /\ UNCHANGED <<cfgvars, racevars, valvars, devvars, h_log>>)
         /\ WF_vars(CbUpdate(Main, w) /\ UNCHANGED <<cfgvars, racevars, valvars, devvars, h_log>>)
         /\ WF_vars(CbRestart(Main, w) /\ UNCHANGED <<cfgvars, racevars, valvars, devvars, h_log>>)

DevStart ==
    /\ CfgIdle /\ RaceIdle /\ ValIdle /\ PidIdle /\ WatchIdle
    /\ h_log = [p \in Procs |-> {}]
    /\ dc_old \in DevLists
    /\ dc_new \in DevLists
    /\ dc_changed = "none"

DevNext == DcCompare /\ UNCHANGED <<cfgvars, racevars, valvars, pidvars, watchvars, h_log>>

\* config_devices_changed applied to every pair of small device lists
SpecDevices == DevStart /\ [][DevNext]_vars

SigNext ==
    \/ (Start(Main) /\ UNCHANGED <<cfgvars, racevars, valvars, extvars>>)
    \/ (GetPidOpen(Main) /\ UNCHANGED <<cfgvars, racevars, valvars, extvars>>)
    \/ (SignalSetup(Main) /\ UNCHANGED <<cfgvars, racevars, valvars, extvars>>)
    \/ (CreateOpen(Main) /\ UNCHANGED <<cfgvars, racevars, valvars, extvars>>)
    \/ (CreateFlock(Main) /\ UNCHANGED <<cfgvars, racevars, valvars, extvars>>)
    \/ (CreateWrite(Main) /\ UNCHANGED <<cfgvars, racevars, valvars, extvars>>)
    \/ (StartupLoad(Main) /\ UNCHANGED <<cfgvars, racevars, valvars, extvars>>)
    \/ (InitComponents(Main) /\ UNCHANGED <<cfgvars, racevars, valvars, extvars>>)
    \/ (RunEnter(Main) /\ UNCHANGED <<cfgvars, racevars, valvars, extvars>>)
    \/ (RunReturn(Main) /\ UNCHANGED <<cfgvars, racevars, valvars, extvars>>)
    \/ (CleanupUnlink(Main) /\ UNCHANGED <<cfgvars, racevars, valvars, extvars>>)
    \/ (CleanupSubsystems(Main) /\ UNCHANGED <<cfgvars, racevars, valvars, extvars>>)
    \/ (CleanupExit(Main) /\ UNCHANGED <<cfgvars, racevars, valvars, extvars>>)
    \/ \E sig \in Signals :
          Raise(Main, sig) /\ UNCHANGED <<cfgvars, racevars, valvars, devvars, watchvars>>

\* the life of one invocation and the signals it is sent, with what
\* signal_handler does for each
SpecSignal == PidInit /\ [][SigNext]_vars

\* ------------------------------------------------------------------------
\* Claims
\* ------------------------------------------------------------------------
Min(a, b) == IF a <= b THEN a ELSE b
Max(a, b) == IF a >= b THEN a ELSE b
Nearest(x, lo, hi) == Min(Max(x, lo), hi)

KnownKeys ==
    IntKeys \cup {"overlay_position", "animation_name", "keyboard_device",
                  "keyboard_devices"}

\* a file that exists and whose lines are all comments or key = value lines
\* with a recognized key
WellFormed(file) ==
    /\ file.exists
    /\ \A i \in 1..Len(file.lines) :
          \/ file.lines[i].shape = "comment"
          \/ file.lines[i].shape = "kv" /\ file.lines[i].key \in KnownKeys

\* a file whose lines do not match key = value
SyntacticallyInvalid(file) ==
    /\ file.exists
    /\ Len(file.lines) > 0
    /\ \A i \in 1..Len(file.lines) : file.lines[i].shape = "malformed"

\* every field of a configuration but the address of its device array
Scalars(c) == [c EXCEPT !.keyboard_devices = NULL]

ReloadDone == last.op = "reload"
ReloadFailed == ReloadDone /\ last.result # BONGOCAT_SUCCESS
ReloadSucceeded == ReloadDone /\ last.result = BONGOCAT_SUCCESS

\* C1: when load_config of the candidate fails inside the reload callback,
\* the live configuration is afterwards identical to the one before the
\* reload in every field, device count and device-path contents included,
\* and neither the reconfigure nor the input-monitor restart was called.
C1_ReloadFailureAllOrNothing ==
    ReloadFailed =>
        /\ g_config = last.pre
        /\ DeviceList(g_config, heap) = last.pre_devs
        /\ last.updates = 0
        /\ last.restarts = 0

\* C2: a reader that reads several members of the live configuration in
\* one use never ends up with a mixture of members of the old and of the new
\* snapshot: what it read is what one complete snapshot holds.
C2_NoMixedSnapshot ==
    rd_i = Len(ReaderFields) =>
        \E c \in published : \A i \in 1..Len(ReaderFields) :
            rd_seen[ReaderFields[i]] = c[ReaderFields[i]]

\* C4: a reload of a file with the same keyboard_device lines as the file
\* that produced the live configuration never calls input_restart_monitoring
\* (stated for runs in which no allocation ever failed).
C4_NoRestartWhenDevicesSame ==
    (ReloadDone /\ nfailures = 0
       /\ DeviceLines(last.file) = DeviceLines(last.prev_file))
    => last.restarts = 0

\* C5: the live device list has at least one entry after the initial load
\* and after every successful reload (stated for runs in which no
\* allocation ever failed).
C5_DeviceListNonEmpty ==
    (last.op \in {"load", "reload"} /\ last.result = BONGOCAT_SUCCESS /\ nfailures = 0)
    => /\ g_config.num_keyboard_devices >= 1
       /\ Len(DeviceList(g_config, heap)) >= 1

\* C6: a reload pointed at a syntactically invalid file leaves every field
\* of the live configuration, and its device list, as before the reload.
C6_InvalidFileKeepsLive ==
    (ReloadDone /\ nfailures = 0 /\ SyntacticallyInvalid(last.file))
    => /\ g_config = last.pre
       /\ DeviceList(g_config, heap) = last.pre_devs

\* C7: load_config called twice in the same process on the same unchanged
\* well-formed file yields two snapshots equal in every field, the number
\* of device paths and the ordered device paths included.
C7_LoadDeterministic ==
    (ReloadSucceeded /\ last.prev_ok /\ nfailures = 0
       /\ last.file = last.prev_file /\ WellFormed(last.file))
    => /\ Scalars(g_config) = Scalars(last.pre)
       /\ DeviceList(g_config, heap) = last.pre_devs

\* C8: a first load of a file with n >= 1 keyboard_device(s) lines yields
\* exactly those n paths in file order, and a file with no such line yields
\* exactly the default device path.
C8_DeviceAccumulation ==
    (last.op = "load" /\ last.result = BONGOCAT_SUCCESS /\ ~last.alloc_failed)
    => DeviceList(g_config, heap) =
          IF Len(DeviceLines(last.file)) >= 1 THEN DeviceLines(last.file)
          ELSE <<DEFAULT_DEVICE>>

\* C9: validate_config is idempotent: applied to its own output, for every
\* combination of field values (out-of-range and negative ones included),
\* it changes no field.
C9_ValidateIdempotent == vstage = 2 => vcfg = vonce

\* C9 witness: validate_config ran twice on a configuration whose animation
\* index and fps were both out of range, and the first run changed them.
C9_Witness ==
    /\ vstage = 2
    /\ vin.animation_index = TOTAL_ANIMATIONS /\ vin.fps = MAX_FPS + 1
    /\ vonce.animation_index = 0 /\ vonce.fps = MAX_FPS

\* C10: after validate_config each clamped field equals min(max(input, lo), hi)
\* for its range: cat_height [10,200], overlay_height [20,300], fps [1,120],
\* keypress_duration and test_animation_duration [10,5000],
\* test_animation_interval [0,3600], overlay_opacity [0,255].
C10_ClampNearest ==
    vstage >= 1 =>
        /\ vonce.cat_height = Nearest(vin.cat_height, 10, 200)
        /\ vonce.overlay_height = Nearest(vin.overlay_height, 20, 300)
        /\ vonce.fps = Nearest(vin.fps, 1, 120)
        /\ vonce.keypress_duration = Nearest(vin.keypress_duration, 10, 5000)
        /\ vonce.test_animation_duration = Nearest(vin.test_animation_duration, 10, 5000)
        /\ vonce.test_animation_interval = Nearest(vin.test_animation_interval, 0, 3600)
        /\ vonce.overlay_opacity = Nearest(vin.overlay_opacity, 0, 255)

\* C10 witness: fps 500 was clamped to 120 and interval -5 to 0, while the
\* in-range opacity was left as it was.
C10_Witness ==
    /\ vstage = 1
    /\ vin.fps = 500 /\ vonce.fps = 120
    /\ vin.test_animation_interval = -5 /\ vonce.test_animation_interval = 0
    /\ vin.overlay_opacity = 150 /\ vonce.overlay_opacity = 150

\* an invocation has acquired the singleton: process_create_pid_file gave it
\* a descriptor and it has not exited
Acquired(p) == acquired[p] >= 1 /\ Alive(p)

\* C3: single instance: at no time have two live invocations both acquired
\* the singleton; an acquire attempted while another invocation has
\* acquired it and has not exited is refused
C3_SingleInstance ==
    \A p \in Procs : \A q \in Procs : p # q => ~(Acquired(p) /\ Acquired(q))

\* the frame count of each selectable animation.  The sprite sheets are not
\* part of the sources at hand; the specification's example takes an
\* idle_frame equal to the Bongocat frame count to lie outside the other
\* animation's own range, below the maximum over all animations.
DM20_AGUMON_NUM_FRAMES == BONGOCAT_NUM_FRAMES
NumFrames(a) ==
    IF a = BONGOCAT_ANIM_INDEX THEN BONGOCAT_NUM_FRAMES ELSE DM20_AGUMON_NUM_FRAMES

\* C11: after validate_config, idle_frame is strictly below the frame count
\* of the animation selected by the final animation_index; with a
\* non-Bongocat animation an idle_frame equal to the Bongocat frame count is
\* not accepted against the maximum frame count of all animations.
C11_IdleFrameWithinSelected ==
    vstage >= 1 =>
        /\ vonce.idle_frame >= 0
        /\ vonce.idle_frame < NumFrames(vonce.animation_index)
        /\ (vin.animation_index = DM20_AGUMON_ANIM_INDEX
              /\ vin.idle_frame = BONGOCAT_NUM_FRAMES
              /\ DM20_AGUMON_NUM_FRAMES < MAX_NUM_FRAMES)
           => vonce.idle_frame # vin.idle_frame

\* the keys a file sets, and the key that sets each field of config_t
FileKeys(file) == {file.lines[i].key : i \in {j \in 1..Len(file.lines) : file.lines[j].shape = "kv"}}
KeyOfField(f) == IF f = "animation_index" THEN "animation_name" ELSE f
FirstLoadDone == last.op = "load" /\ ~last.alloc_failed

\* C12: defaults with partial override: load_config on a missing file
\* succeeds with every field at its default, and after loading a file every
\* field whose key does not appear in the file equals its default.
C12_DefaultsPartialOverride ==
    FirstLoadDone =>
        /\ last.result = BONGOCAT_SUCCESS
        /\ \A f \in DOMAIN DefaultConfig \ {"keyboard_devices", "num_keyboard_devices"} :
              KeyOfField(f) \notin FileKeys(last.file) => g_config[f] = DefaultConfig[f]
        /\ DeviceLines(last.file) = <<>> => DeviceList(g_config, heap) = <<DEFAULT_DEVICE>>

\* a line with an unrecognized key, or one that does not match key = value
BadLine(ln) ==
    \/ ln.shape = "malformed"
    \/ ln.shape = "kv" /\ ln.key \notin KnownKeys
BadLines(file) == SelectSeq(file.lines, BadLine)
\* the file without those lines
Stripped(file) ==
    [file EXCEPT !.lines = SelectSeq(file.lines, LAMBDA ln : ~BadLine(ln))]
\* the first load of a process on a file, no allocation failing
CleanLoad(file) == LoadConfigFrom(NULL, 0, EmptyHeap, {}, file, NoFailure)

\* C13: a line with an unrecognized key or a malformed line changes no
\* configuration field, produces exactly one warning, never makes the load
\* fail and does not keep a later line from being applied: the load gives
\* what the file without these lines gives, with one more warning per line.
C13_BadLinesTolerated ==
    FirstLoadDone =>
        LET ref == CleanLoad(Stripped(last.file)) IN
        /\ last.result = BONGOCAT_SUCCESS
        /\ Scalars(g_config) = Scalars(ref.cfg)
        /\ DeviceList(g_config, heap) = DeviceList(ref.cfg, ref.heap)
        /\ last.warnings = ref.warnings + Len(BadLines(last.file))

\* C13 witness: foo=bar followed by cat_height=55 was loaded: cat_height is
\* 55 and there was exactly one warning.
C13_Witness ==
    /\ FirstLoadDone
    /\ last.file = File(<<L_foo, L_cat55>>)
    /\ last.result = BONGOCAT_SUCCESS
    /\ g_config.cat_height = 55
    /\ last.warnings = 1

IsPrefix(a, b) == Len(a) <= Len(b) /\ \A i \in 1..Len(a) : a[i] = b[i]
InShutdown(p) == pc[p] \in {"cl_unlink", "cl_rest", "cl_exit"}

\* the order of shutdown the specification gives
ShutdownOrder ==
    <<"config_watcher_cleanup", "animation_cleanup", "wayland_cleanup",
      "input_cleanup", "config_cleanup", "process_remove_pid_file">>

\* C14: shutdown runs its steps in the fixed order watcher, animator,
\* renderer, input monitor, configuration, and removes the PID file last,
\* after every subsystem has been stopped.
C14_ShutdownOrder == \A p \in Procs : IsPrefix(cl_log[p], ShutdownOrder)

C16_StopRequestKept ==
    \A p \in Procs : (signalled[p] /\ pc[p] = "run") => running[p] = 0

Has(log, e) == \E i \in 1..Len(log) : log[i] = e
\* what toggle did with kill() after the lookup, in order
ToggleDeeds(p) ==
    SelectSeq(toggle_log[p],
              LAMBDA e : e \in {"SIGTERM", "SIGTERM_failed", "gone", "SIGKILL"})
InToggle(p) ==
    pc[p] \in {"t_open", "t_flock", "t_reopen", "t_read", "t_kill0", "t_unlink",
               "t_term", "t_poll", "t_done"}

\* C17: toggle never force-kills early: SIGTERM is sent first, SIGKILL only
\* after 50 polls that each found the target alive; when a poll finds the
\* target gone no SIGKILL is sent and the result is 0.
C17_NoEarlyForceKill ==
    \A p \in Procs :
        /\ ToggleDeeds(p) \in {<<>>, <<"SIGTERM_failed">>, <<"SIGTERM">>,
                               <<"SIGTERM", "gone">>, <<"SIGTERM", "SIGKILL">>}
        /\ Has(ToggleDeeds(p), "SIGKILL") => poll_i[p] = 50
        /\ Has(ToggleDeeds(p), "gone") =>
              /\ poll_i[p] < 50
              /\ pc[p] = "exited"
              /\ exit_code[p] = 0

\* C17 witness: the target stayed alive through all 50 polls and toggle sent
\* SIGKILL after its SIGTERM.
C17_Witness ==
    /\ ToggleDeeds(Toggler) = <<"SIGTERM", "SIGKILL">>
    /\ poll_i[Toggler] = 50
    /\ pc[Instance] = "killed"

\* C18: the result of stopping a running instance tells a graceful stop (0)
\* from a forced one, and both from the failure to send the request (1).
C18_OutcomesDistinct ==
    \A p \in Procs : pc[p] = "exited" =>
        /\ Has(ToggleDeeds(p), "gone") => exit_code[p] = 0
        /\ Has(ToggleDeeds(p), "SIGTERM_failed") => exit_code[p] = 1
        /\ Has(ToggleDeeds(p), "SIGKILL") => exit_code[p] \notin {0, 1}

\* C19: process_get_running_pid returns the recorded PID and leaves the PID
\* file alone when the recorded process is alive; when the file names a dead
\* process it unlinks the file and reports none; when there is no PID file
\* it reports none; and on "none" toggle goes on to the normal startup.
C19_StaleLockHealing ==
    /\ [](\A p \in Procs :
            /\ Has(toggle_log[p], "alive") =>
                  /\ ~Has(toggle_log[p], "unlink")
                  /\ running_pid[p] \in Procs
            /\ (Has(toggle_log[p], "dead") /\ pc[p] # "t_unlink") =>
                  /\ Has(toggle_log[p], "unlink")
                  /\ running_pid[p] = -1
                  /\ ToggleDeeds(p) = <<>>
                  /\ ~InToggle(p)
            /\ Has(toggle_log[p], "nofile") =>
                  /\ ~Has(toggle_log[p], "unlink")
                  /\ running_pid[p] = -1
                  /\ ToggleDeeds(p) = <<>>
                  /\ ~InToggle(p))
    /\ [][\A p \in Procs :
            /\ toggle_log'[p] = Append(toggle_log[p], "unlink") => pid_path' = 0
            /\ (Has(toggle_log[p], "alive") /\ InToggle(p) /\ ~InToggle(p)')
                  => pc'[p] \in {"exited", "killed"}
            /\ toggle_log'[p] = Append(toggle_log[p], "alive")
                  => /\ pid_path' = pid_path
                     /\ running_pid'[p] = running_pid[p]
                     /\ running_pid[p] \in Procs]_vars

\* C19 witness: the PID file named an instance that had ended; the lookup
\* removed the file and the toggle invocation went on to start up.
C19_Witness ==
    /\ Has(toggle_log[Toggler], "dead")
    /\ Has(toggle_log[Toggler], "unlink")
    /\ pc[Instance] = "exited"
    /\ pc[Toggler] = "c_open"
    /\ pid_path = 0

\* C20: a failure after the singleton was acquired (load_config, or a step
\* of system_initialize_components) runs no further init step, undoes what
\* was done, the PID file included, and ends with a non-zero exit code.
C20_StartupFailureUnwinds ==
    \A p \in Procs :
        (pc[p] = "exited" /\ acquired[p] >= 1 /\ Len(init_log[p]) < Len(InitSteps)) =>
            /\ exit_code[p] # 0
            /\ Has(cl_log[p], "process_remove_pid_file")
            /\ ~(pid_path # 0 /\ content[pid_path] = p)

\* the callbacks an invocation's watcher has in progress
CallbacksInFlight(p) == {w \in Workers : InCallback(p, w)}

C22_RestartWithNewDevices ==
    (ReloadSucceeded /\ nfailures = 0
       /\ Len(DeviceLines(last.file)) >= 1
       /\ DeviceLines(last.file) # DeviceLines(last.prev_file))
    => /\ last.restarts = 1
       /\ last.restart_num = g_config.num_keyboard_devices
       /\ last.restart_devs = DeviceList(g_config, heap)
       /\ DeviceList(g_config, heap) = DeviceLines(last.file)

\* the set of paths in a device list
PathSet(devs) == {devs[i] : i \in 1..Len(devs)}

\* C23: config_devices_changed compares the two lists as sets of paths: for
\* all device lists old and new, repeated paths and different lengths
\* included, it returns true exactly when the set of paths in new differs
\* from the set of paths in old.
C23_DevicesChangedIsSetComparison ==
    dc_changed # "none" =>
        ((dc_changed = "changed") <=> (PathSet(dc_new) # PathSet(dc_old)))

\* C24: the device-path array a reader can still reach is never released,
\* relocated or changed by a reload: the array the live configuration
\* refers to is allocated at all times, and while a callback is between its
\* load and its return the array of the configuration it is replacing is
\* still allocated and still holds the paths it held before the reload.
C24_OldDevicesStable ==
    /\ g_config.keyboard_devices # NULL => heap[g_config.keyboard_devices].live
    /\ (rl_pc # "idle" /\ old_config.keyboard_devices # NULL) =>
          /\ heap[old_config.keyboard_devices].live
          /\ DeviceList(old_config, heap) = last.pre_devs

\* what a handler may do: write a flag
FlagWrites == {"running = 0"}

\* C25: signal_handler performs only flag writes: for SIGINT, SIGTERM and
\* SIGCHLD it makes no logging call, no allocation, no waitpid and no
\* blocking call.
C25_HandlerOnlyWritesFlags == \A p \in Procs : h_log[p] \subseteq FlagWrites

\* C26: every reload returns to Running: no step of config_reload_callback
\* starts the shutdown, ends the process or clears the run flag, whether
\* the load fails, the reload succeeds or the restart of the input monitor
\* fails; the callback ends (while the process lives), and when it ends its
\* thread is polling again, ready for the next change of the file.
C26_ReloadReturnsToRunning ==
    /\ [][\A p \in Procs : \A w \in Workers :
            (InCallback(p, w) /\ w_pc'[p][w] # w_pc[p][w]) =>
               /\ pc'[p] = pc[p]
               /\ exit_code'[p] = exit_code[p]
               /\ cl_code'[p] = cl_code[p]
               /\ cl_log'[p] = cl_log[p]
               /\ running'[p] = running[p]
               /\ (w_pc'[p][w] \in {"cb_load", "cb_swap", "cb_update", "cb_restart"}
                     \/ w_pc'[p][w] = "poll")]_vars
    /\ \A w \in Workers :
         InCallback(Main, w) ~> (~InCallback(Main, w) \/ ~Alive(Main))

\* the main loop is running, a reload whose restart of the input monitor
\* failed is over, and the next reload has been accepted
C26_Witness ==
    /\ pc[Main] = "run"
    /\ cb_result[Main] = "restart_failed"
    /\ w_calls[Main] = 2
    /\ w_pc[Main][1] = "cb_load"

\* C27: a failed acquire leaves the holder's record unchanged: whenever an
\* invocation has acquired the singleton and PID_FILE still names the file
\* it locked, that file holds its PID, whatever other invocations were
\* refused meanwhile.
C27_RejectKeepsRecord ==
    \A p \in Procs :
        (Acquired(p) /\ pid_path = pid_fd[p] /\ ex_lock[pid_path] = p)
        => content[pid_path] = p

\* an instance that is up: it acquired the singleton, holds the lock and has
\* not begun to shut down
RunningInstance(q) ==
    /\ Acquired(q)
    /\ pc[q] \in {"load", "watch", "init", "run_enter", "run"}
    /\ pid_fd[q] # 0 /\ ex_lock[pid_fd[q]] = q

\* C28: no removal of PID_FILE, by a lookup that found a stale PID or by a
\* departing instance, removes the file a running instance created and
\* holds locked.
C28_RemovalSparesLiveFile ==
    [][(pid_path # 0 /\ pid_path' = 0) =>
          ~\E q \in Procs : RunningInstance(q) /\ pid_fd[q] = pid_path]_vars

\* system_initialize_components has returned BONGOCAT_SUCCESS
InitDone(p) == Len(init_log[p]) = Len(InitSteps)

\* C29: no reload is applied before initialization has completed: a
\* callback that has replaced g_config, and is about to call
\* wayland_update_config or input_restart_monitoring, only exists once
\* system_initialize_components has finished successfully.
C29_NoReloadBeforeInit ==
    \A p \in Procs : \A w \in Workers :
        w_pc[p][w] \in {"cb_update", "cb_restart"} => InitDone(p)

====
